---- MODULE Spec2Model ----
(***************************************************************************)
(* Model of the Nova growth platform (flask_app): the client / lead /      *)
(* opportunity store, the start-up seeding, the request handlers of        *)
(* app.py and the guardrail engine of services/guardrails.py.              *)
(*                                                                         *)
(* Conventions                                                             *)
(*   - a nullable column or an optional JSON key is an option: <<>> is     *)
(*     None / absent, <<v>> is the value v;                                *)
(*   - a Python str is a sequence of characters over the alphabet Chars,   *)
(*     where " " stands for any whitespace character and "x" for any       *)
(*     other character;                                                    *)
(*   - a datetime is an integer number of tenths of a day.                 *)
(***************************************************************************)
EXTENDS Integers, Sequences, FiniteSets, TLC

VARIABLES
    boot,      \* position of create_app's start-up sequence
    now,       \* datetime.utcnow()
    users,     \* table users: sequence of User rows, id = index
    clients,   \* table clients: sequence of Client rows, id = index
    opps,      \* table opportunities: sequence of Opportunity rows, id = index
    leads,     \* table leads: sequence of Lead rows, id = index
    resp,      \* the response of the last request served
    sess,      \* per in-flight request: the ORM session of a move request
    perms,     \* table client_permissions: the number of rows of each value
    flags      \* table risk_flags: sequence of RiskFlag rows, id = index

vars == <<boot, now, users, clients, opps, leads, resp, sess, perms, flags>>

-----------------------------------------------------------------------------
(* Bounds of the model *)

\* clients that may exist (client_add and lead_convert stop adding there)
MaxClients == 3
\* longest legacy_systems string drawn for a client snapshot
MaxLen == 2
\* move requests in flight at once in the concurrent specification
MaxInFlight == 2

-----------------------------------------------------------------------------
(* Options and strings *)

None == <<>>
Some(v) == <<v>>
IsNone(o) == o = <<>>
\* Python's `o or d` for a nullable number
OrNum(o, d) == IF o = <<>> THEN d ELSE IF o[1] = 0 THEN d ELSE o[1]
\* dict.get(key, default) on an optional key
Get(o, d) == IF o = <<>> THEN d ELSE o[1]

Chars == {"x", " "}

RECURSIVE LStrip(_)
LStrip(s) == IF s = <<>> THEN <<>>
             ELSE IF Head(s) = " " THEN LStrip(Tail(s)) ELSE s

RECURSIVE RStrip(_)
RStrip(s) == IF s = <<>> THEN <<>>
             ELSE IF s[Len(s)] = " " THEN RStrip(SubSeq(s, 1, Len(s) - 1)) ELSE s

\* str.strip()
Strip(s) == RStrip(LStrip(s))

\* the truthiness of `s` alone, the strip forgotten
Truthy_noStrip(so) == so # <<>> /\ so[1] # <<>>

\* truthiness of `s and s.strip()` for a nullable string column
Truthy(so) == so # <<>> /\ so[1] # <<>> /\ Strip(so[1]) # <<>>

-----------------------------------------------------------------------------
(* models.py *)

ROLE_CEO == "ceo"
ROLE_STRATEGY_LEAD == "strategy_lead"
ROLE_EMPLOYEE == "employee"

\* a sixth stage accepted by the membership check
KANBAN_STAGES_six ==
    <<"qualified_lead", "discovery", "proposal", "contract", "kickoff", "closed_won">>

KANBAN_STAGES == <<"qualified_lead", "discovery", "proposal", "contract", "kickoff">>

StageSet == {KANBAN_STAGES[i] : i \in 1..Len(KANBAN_STAGES)}

\* contract handed to Sales
STAGE_OWNERS_contractSales(stage) ==
    CASE stage = "contract" -> "Sales"
      [] stage = "kickoff" -> "Delivery"
      [] OTHER -> "Sales"

\* kickoff handed to Operations
STAGE_OWNERS_kickoffOperations(stage) ==
    CASE stage = "contract" -> "Operations"
      [] stage = "kickoff" -> "Operations"
      [] OTHER -> "Sales"

\* STAGE_OWNERS.get(stage, "Sales"), as every use of the dict reads it
STAGE_OWNERS(stage) ==
    CASE stage = "qualified_lead" -> "Sales"
      [] stage = "discovery" -> "Sales"
      [] stage = "proposal" -> "Sales"
      [] stage = "contract" -> "Operations"
      [] stage = "kickoff" -> "Delivery"
      [] OTHER -> "Sales"

\* the threshold off by one
AI_READINESS_THRESHOLD_plus1 == 50 + 1

AI_READINESS_THRESHOLD == 50

\* User.has_full_access
has_full_access(role) == role \in {ROLE_CEO, ROLE_STRATEGY_LEAD}

\* Opportunity(client_id, stage, primary_owner)
Opportunity(cid, stage, owner) ==
    [client_id |-> cid, stage |-> stage, primary_owner |-> owner]

\* Client(...) with the column defaults of models.py for what is not passed
ClientDefaults ==
    [name |-> "", legacy_systems |-> Some(<<>>), ai_readiness_score |-> Some(50),
     last_delivery_update |-> Some(0), revenue |-> Some(0),
     services_revenue |-> Some(0), ai_product_revenue |-> Some(0),
     trust_level |-> Some(50), data_foundation_service_active |-> FALSE,
     engagement_start_date |-> None, use_case_documented |-> FALSE,
     delivery_capacity_confirmed |-> FALSE, prior_pilot_success |-> FALSE,
     budget_confirmed |-> FALSE, handoff_checklist_complete |-> FALSE,
     ai_use_cases |-> Some(<<"[", "]">>), technical_blockers |-> Some(<<"[", "]">>),
     key_stakeholders |-> Some(<<"[", "]">>), delivery_notes |-> Some(<<>>),
     analysis_updated_at |-> None, assigned_to_id |-> None, approver_id |-> None,
     ai_feature_request |-> Some(<<>>), created_at |-> Some(0)]

-----------------------------------------------------------------------------
(* Requests: who is logged in *)

\* current_user: 0 is the anonymous user, u > 0 the row u of users
is_authenticated(u) == u > 0
LoggedIn == 1..Len(users)

\* services/auth_utils.py can_grant_permissions
can_grant_permissions(u) ==
    IF ~is_authenticated(u) THEN FALSE
    ELSE users[u].role \in {ROLE_CEO, ROLE_STRATEGY_LEAD}

\* a response: every handler fills the fields its answer carries
Response(op, status, error) ==
    [op |-> op, status |-> status, error |-> error, stage |-> "",
     threshold |-> 0, score |-> 0, required_owner |-> "", ok |-> TRUE,
     warnings |-> <<>>, can_view_confidential |-> FALSE, priority |-> 0,
     rows |-> <<>>, total_revenue |-> 0, services_revenue |-> 0,
     ai_product_revenue |-> 0, revenue_velocity |-> 0]

\* @login_required for an anonymous user: redirect to the login view
LoginRedirect(op) == Response(op, 302, "login_required")

-----------------------------------------------------------------------------
(* Start-up: create_app runs _seed_if_empty, _ensure_opportunities,        *)
(* _seed_users_if_empty and _seed_leads_if_empty, in this order.           *)

\* one day, in the model's unit of a tenth of a day
Day == 10

\* a non-blank string such as "Legacy ERP, Custom case management"
Text == <<"x", " ", "x">>

\* clients_data of _seed_if_empty, with the stage its opportunity is seeded in
SeedClients(t) ==
    << [ClientDefaults EXCEPT
          !.name = "California Dept of Public Services",
          !.legacy_systems = Some(Text), !.ai_readiness_score = Some(65),
          !.revenue = Some(120000), !.services_revenue = Some(84000),
          !.ai_product_revenue = Some(36000), !.trust_level = Some(75),
          !.data_foundation_service_active = FALSE,
          !.engagement_start_date = Some(t - 200 * Day),
          !.use_case_documented = FALSE, !.delivery_capacity_confirmed = FALSE,
          !.prior_pilot_success = FALSE,
          !.last_delivery_update = Some(t - 5 * Day), !.created_at = Some(t)],
       [ClientDefaults EXCEPT
          !.name = "State Health Authority",
          !.legacy_systems = Some(Text), !.ai_readiness_score = Some(45),
          !.revenue = Some(85000), !.services_revenue = Some(85000),
          !.ai_product_revenue = Some(0), !.trust_level = Some(40),
          !.data_foundation_service_active = FALSE,
          !.engagement_start_date = Some(t - 100 * Day),
          !.use_case_documented = FALSE, !.delivery_capacity_confirmed = FALSE,
          !.prior_pilot_success = FALSE,
          !.last_delivery_update = Some(t - 14 * Day), !.created_at = Some(t)],
       [ClientDefaults EXCEPT
          !.name = "Regional Education Agency",
          !.legacy_systems = Some(Text), !.ai_readiness_score = Some(80),
          !.revenue = Some(200000), !.services_revenue = Some(120000),
          !.ai_product_revenue = Some(80000), !.trust_level = Some(85),
          !.data_foundation_service_active = TRUE,
          !.engagement_start_date = Some(t - 400 * Day),
          !.use_case_documented = TRUE, !.delivery_capacity_confirmed = TRUE,
          !.prior_pilot_success = TRUE,
          !.last_delivery_update = Some(t - 2 * Day), !.created_at = Some(t)] >>

\* the stage _seed_if_empty picks from the client's name
SeedStage(name) ==
    IF name = "California Dept of Public Services" THEN "proposal"
    ELSE IF name = "State Health Authority" THEN "discovery"
    ELSE "qualified_lead"

\* c.opportunities.count() for client cid in the opportunity table os
OppCount(os, cid) == Cardinality({i \in 1..Len(os) : os[i].client_id = cid})

\* the stage of the opportunity added for a client without one: by name in
\* _seed_if_empty (seeding), "qualified_lead" in _ensure_opportunities
MissingStage(seeding, name) == IF seeding THEN SeedStage(name) ELSE "qualified_lead"

\* the owner written with it: STAGE_OWNERS.get(stage, "Sales") in
\* _seed_if_empty, the literal "Sales" in _ensure_opportunities
MissingOwner(seeding, name) == IF seeding THEN STAGE_OWNERS(SeedStage(name)) ELSE "Sales"

\* `for c in Client.query.all(): if c.opportunities.count() == 0:
\* db.session.add(Opportunity(..))`, from client cid on
RECURSIVE AddMissingOpps(_, _, _, _)
AddMissingOpps(cs, os, cid, seeding) ==
    IF cid > Len(cs) THEN os
    ELSE IF OppCount(os, cid) = 0
         THEN AddMissingOpps(cs,
                  Append(os, Opportunity(cid, MissingStage(seeding, cs[cid].name),
                                         MissingOwner(seeding, cs[cid].name))),
                  cid + 1, seeding)
         ELSE AddMissingOpps(cs, os, cid + 1, seeding)

SeedIfEmpty ==
    /\ boot = "seed"
    /\ boot' = "ensure"
    /\ IF clients # <<>>
       THEN UNCHANGED <<clients, opps>>
       ELSE /\ clients' = SeedClients(now)
            /\ opps' = AddMissingOpps(SeedClients(now), opps, 1, TRUE)
    /\ UNCHANGED <<now, users, leads, resp, sess, perms, flags>>

\* start-up without the pass that gives every client an opportunity
EnsureOpportunities_skip ==
    /\ boot = "ensure"
    /\ boot' = "users"
    /\ UNCHANGED <<now, users, clients, opps, leads, resp, sess, perms, flags>>

\* _ensure_opportunities
EnsureOpportunities ==
    /\ boot = "ensure"
    /\ boot' = "users"
    /\ opps' = AddMissingOpps(clients, opps, 1, FALSE)
    /\ UNCHANGED <<now, users, clients, leads, resp, sess, perms, flags>>

\* the users _seed_users_if_empty leaves in an empty users table
SeedUsers ==
    << [email |-> "vedantmilindathavale@gmail.com", role |-> ROLE_STRATEGY_LEAD],
       [email |-> "ceo@novaera.com", role |-> ROLE_CEO],
       [email |-> "employee@novaera.com", role |-> ROLE_EMPLOYEE] >>

SeedUsersIfEmpty ==
    /\ boot = "users"
    /\ boot' = "leads"
    /\ users' = IF users = <<>> THEN SeedUsers ELSE users
    /\ UNCHANGED <<now, clients, opps, leads, resp, sess, perms, flags>>

\* ca_gov_depts: the first of the 50 departments; its lead matches the
\* first seeded client by name when the clients were seeded, and no client
\* otherwise, as the leads of the other departments do
ca_gov_depts == <<"Dept of Public Services">>

\* clients_by_name.get(name) or clients_by_name.get(dept)
ClientByName(cs, name) ==
    LET hits == {i \in 1..Len(cs) : cs[i].name = name}
    IN IF hits = {} THEN None
       ELSE Some(CHOOSE i \in hits : \A j \in hits : j <= i)

SeedLead(cs, dept) ==
    LET name == "California Dept of Public Services"
        byName == ClientByName(cs, name)
        client_id == IF byName # None THEN byName ELSE ClientByName(cs, dept)
    IN [name |-> name,
        status |-> IF client_id # None THEN "converted" ELSE "new",
        converted_to_client_id |-> client_id,
        notes |-> Text]

SeedLeadsIfEmpty ==
    /\ boot = "leads"
    /\ boot' = "ready"
    /\ leads' = IF leads # <<>> THEN leads
                ELSE [i \in 1..Len(ca_gov_depts) |-> SeedLead(clients, ca_gov_depts[i])]
    /\ UNCHANGED <<now, users, clients, opps, resp, sess, perms, flags>>

-----------------------------------------------------------------------------
(* services/guardrails.py *)

MsgServicesFirst ==
    "Services engagement required before AI Product adoption. Legacy systems detected but no Data Foundation Service active."
MsgDataAudit ==
    "AI Product proposed without data audit. Data Foundation Service recommended."
MsgSixMonths ==
    "Product readiness: Client has < 6 months engagement. Services engagement should precede AI product pilots."
MsgUseCase == "Use case must be documented before proposing AI product."
MsgCapacity == "Delivery capacity must be confirmed before committing to AI product."
\* (the dash of "3-6" is an en dash in the source)
MsgPilot ==
    "Pilot before scale: AI products should start as 3-6 month pilots unless client has prior successful pilot with us."
MsgHandoff == "Handoff checklist must be complete before contract signing."
MsgTrust ==
    "Trust preservation: Low trust account with AI product. Consider additional services support before scaling product."
MsgNewRelationship ==
    "Services first: New relationship (< 90 days). Establish services engagement before AI product."

\* timedelta.days of the difference d of two datetimes (floor of whole days)
DaysOf(d) == d \div Day

\* the operands taken in the other order: created_at before the start date
OrDate_createdFirst(a, b) == IF b # <<>> THEN b ELSE a

\* `a or b` on two nullable datetimes
OrDate(a, b) == IF a # None THEN a ELSE b

\* list(dict.fromkeys(ws)): the first occurrence of every message, in order
RECURSIVE Dedupe(_)
Dedupe(ws) ==
    IF ws = <<>> THEN <<>>
    ELSE LET init == Dedupe(SubSeq(ws, 1, Len(ws) - 1))
             last == ws[Len(ws)]
         IN IF \E i \in 1..Len(init) : init[i] = last THEN init
            ELSE Append(init, last)

\* `warnings.append(msg)` under `if cond`
AppendIf(ws, cond, msg) == IF cond THEN Append(ws, msg) ELSE ws

\* rule 1 of validate_deal
Rule1(client) ==
    /\ Truthy(client.legacy_systems)
    /\ ~client.data_foundation_service_active

\* the scale of rule 6 raised to the revenue of the scenario
PilotScale_high == 50000 + 10000

\* `ai_rev > 50000` of rule 6
PilotScale == 50000

\* only a signed contract asks for the checklist
HandoffStages_contractOnly == {"contract"}

\* `stage in ("contract", "kickoff")` of rule 8
HandoffStages == {"contract", "kickoff"}

\* the trust rule evaluated before the handoff rule
validate_deal_trustFirst(client, stages, t) ==
    LET ai_rev == OrNum(client.ai_product_revenue, 0)
        dfs == client.data_foundation_service_active
        eng_start == OrDate(client.engagement_start_date, client.created_at)
        use_cases == IF client.ai_use_cases = None \/ client.ai_use_cases = Some(<<>>)
                     THEN <<"[", "]">> ELSE client.ai_use_cases[1]
        trust == OrNum(client.trust_level, 50)
        w1 == AppendIf(<<>>, Rule1(client), MsgServicesFirst)
        w2 == AppendIf(w1, ai_rev > 0 /\ ~dfs /\ Truthy(client.legacy_systems),
                       MsgDataAudit)
        \* months = days / 30; months < 6
        w3 == AppendIf(w2, /\ ai_rev > 0
                           /\ eng_start # None
                           /\ DaysOf(t - eng_start[1]) < 6 * 30,
                       MsgSixMonths)
        w4 == AppendIf(w3, /\ ai_rev > 0
                           /\ ~client.use_case_documented
                           /\ (use_cases = <<"[", "]">> \/ Strip(use_cases) = <<>>),
                       MsgUseCase)
        w5 == AppendIf(w4, ai_rev > 0 /\ ~client.delivery_capacity_confirmed,
                       MsgCapacity)
        w6 == AppendIf(w5, ai_rev > PilotScale /\ ~client.prior_pilot_success /\ ~dfs,
                       MsgPilot)
        w8 == AppendIf(w6, trust < 50 /\ ai_rev > 0, MsgTrust)
        w9 == AppendIf(w8, /\ \E i \in 1..Len(stages) :
                                 stages[i] \in HandoffStages
                           /\ ~client.handoff_checklist_complete,
                       MsgHandoff)
        w10 == AppendIf(w9, /\ eng_start # None
                            /\ ai_rev > 0
                            /\ DaysOf(t - eng_start[1]) < 90,
                        MsgNewRelationship)
    IN [ok |-> Len(w10) = 0, warnings |-> Dedupe(w10)]

\* an engagement of two months taken as long enough
MinEngagementDays_two == 2 * 30

\* rule 3: months = days / 30 and months < 6, as a number of days
MinEngagementDays == 6 * 30

\* validate_deal(client), the client's opportunities being the stages in
\* stages, at time t: (ok, warnings)
validate_deal(client, stages, t) ==
    LET ai_rev == OrNum(client.ai_product_revenue, 0)
        dfs == client.data_foundation_service_active
        eng_start == OrDate(client.engagement_start_date, client.created_at)
        use_cases == IF client.ai_use_cases = None \/ client.ai_use_cases = Some(<<>>)
                     THEN <<"[", "]">> ELSE client.ai_use_cases[1]
        trust == OrNum(client.trust_level, 50)
        w1 == AppendIf(<<>>, Rule1(client), MsgServicesFirst)
        w2 == AppendIf(w1, ai_rev > 0 /\ ~dfs /\ Truthy(client.legacy_systems),
                       MsgDataAudit)
        \* months = days / 30; months < 6
        w3 == AppendIf(w2, /\ ai_rev > 0
                           /\ eng_start # None
                           /\ DaysOf(t - eng_start[1]) < MinEngagementDays,
                       MsgSixMonths)
        w4 == AppendIf(w3, /\ ai_rev > 0
                           /\ ~client.use_case_documented
                           /\ (use_cases = <<"[", "]">> \/ Strip(use_cases) = <<>>),
                       MsgUseCase)
        w5 == AppendIf(w4, ai_rev > 0 /\ ~client.delivery_capacity_confirmed,
                       MsgCapacity)
        w6 == AppendIf(w5, ai_rev > PilotScale /\ ~client.prior_pilot_success /\ ~dfs,
                       MsgPilot)
        w8 == AppendIf(w6, /\ \E i \in 1..Len(stages) :
                                 stages[i] \in HandoffStages
                           /\ ~client.handoff_checklist_complete,
                       MsgHandoff)
        w9 == AppendIf(w8, trust < 50 /\ ai_rev > 0, MsgTrust)
        w10 == AppendIf(w9, /\ eng_start # None
                            /\ ai_rev > 0
                            /\ DaysOf(t - eng_start[1]) < 90,
                        MsgNewRelationship)
    IN [ok |-> Len(w10) = 0, warnings |-> Dedupe(w10)]

\* list(client.opportunities): the stages of client cid's opportunities
RECURSIVE StagesOf(_, _)
StagesOf(os, cid) ==
    IF os = <<>> THEN <<>>
    ELSE IF Head(os).client_id = cid
         THEN <<Head(os).stage>> \o StagesOf(Tail(os), cid)
         ELSE StagesOf(Tail(os), cid)

\* is message m in the list ws
Has(ws, m) == \E i \in 1..Len(ws) : ws[i] = m

-----------------------------------------------------------------------------
(* app.py: the request handlers.  Every route modelled is @login_required: *)
(* an anonymous request is answered by AnonymousRequest and never enters   *)
(* the handler; a handler is entered with current_user = users[u].         *)

Routes == {"client_add", "lead_convert", "move"}

\* @login_required, current_user not authenticated
AnonymousRequest(op) ==
    /\ boot = "ready"
    /\ sess = <<>>
    /\ resp' = LoginRedirect(op)
    /\ UNCHANGED <<boot, now, users, clients, opps, leads, sess, perms, flags>>

NotFound(op) == Response(op, 404, "Not Found")

\* GET /validate_deal/<client_id>
ValidateDealRoute(client_id) ==
    /\ boot = "ready"
    /\ sess = <<>>
    /\ resp' = IF client_id \notin 1..Len(clients) THEN NotFound("validate_deal")
               ELSE LET r == validate_deal(clients[client_id],
                                           StagesOf(opps, client_id), now)
                    IN [Response("validate_deal", 200, "") EXCEPT
                           !.ok = r.ok, !.warnings = r.warnings]
    /\ UNCHANGED <<boot, now, users, clients, opps, leads, sess, perms, flags>>

\* the JSON bodies a move request is drawn from: an unknown stage, the key
\* absent; a role that owns no stage, the key absent
StageInputs == {None} \cup {Some(s) : s \in StageSet \cup {"closed_won"}}
RoleInputs == {None} \cup {Some(r) : r \in {"Sales", "Operations", "Delivery", "Finance"}}
MoveData == [stage : StageInputs, user_role : RoleInputs]

\* the JSON body {"stage": stage, "user_role": role}
MoveTo(stage, role) == [stage |-> Some(stage), user_role |-> role]

\* the authority gate checked before the quality gate
MoveOutcome_authorityFirst(stage, readiness, data) ==
    LET new_stage == data.stage
        user_role == Get(data.user_role, "Sales")
        score == OrNum(readiness, 0)
    IN IF new_stage = None \/ new_stage[1] \notin StageSet
       THEN [Response("move", 400, "Invalid stage") EXCEPT !.ok = FALSE]
       ELSE IF user_role # STAGE_OWNERS(new_stage[1])
       THEN [Response("move", 403, "Decision Authority required") EXCEPT
                !.ok = FALSE, !.required_owner = STAGE_OWNERS(new_stage[1])]
       ELSE IF /\ stage = "proposal"
               /\ new_stage[1] = "contract"
               /\ score < AI_READINESS_THRESHOLD
       THEN [Response("move", 400, "Quality Gate") EXCEPT
                !.ok = FALSE, !.threshold = AI_READINESS_THRESHOLD, !.score = score]
       ELSE [Response("move", 200, "") EXCEPT !.stage = new_stage[1]]

\* the quality gate applied to every move into contract, whatever the
\* current stage
MoveOutcome_gateAnySource(stage, readiness, data) ==
    LET new_stage == data.stage
        user_role == Get(data.user_role, "Sales")
        score == OrNum(readiness, 0)
    IN IF new_stage = None \/ new_stage[1] \notin StageSet
       THEN [Response("move", 400, "Invalid stage") EXCEPT !.ok = FALSE]
       ELSE IF new_stage[1] = "contract" /\ score < AI_READINESS_THRESHOLD
       THEN [Response("move", 400, "Quality Gate") EXCEPT
                !.ok = FALSE, !.threshold = AI_READINESS_THRESHOLD, !.score = score]
       ELSE IF user_role # STAGE_OWNERS(new_stage[1])
       THEN [Response("move", 403, "Decision Authority required") EXCEPT
                !.ok = FALSE, !.required_owner = STAGE_OWNERS(new_stage[1])]
       ELSE [Response("move", 200, "") EXCEPT !.stage = new_stage[1]]

\* the three gates of api_opportunity_move, in the order of the code: the
\* response for an opportunity in stage `stage` whose client has readiness
\* `readiness` (nullable)
MoveOutcome(stage, readiness, data) ==
    LET new_stage == data.stage
        user_role == Get(data.user_role, "Sales")
        score == OrNum(readiness, 0)
    IN IF new_stage = None \/ new_stage[1] \notin StageSet
       THEN [Response("move", 400, "Invalid stage") EXCEPT !.ok = FALSE]
       ELSE IF /\ stage = "proposal"
               /\ new_stage[1] = "contract"
               /\ score < AI_READINESS_THRESHOLD
       THEN [Response("move", 400, "Quality Gate") EXCEPT
                !.ok = FALSE, !.threshold = AI_READINESS_THRESHOLD, !.score = score]
       ELSE IF user_role # STAGE_OWNERS(new_stage[1])
       THEN [Response("move", 403, "Decision Authority required") EXCEPT
                !.ok = FALSE, !.required_owner = STAGE_OWNERS(new_stage[1])]
       ELSE [Response("move", 200, "") EXCEPT !.stage = new_stage[1]]

\* the assignment of primary_owner forgotten
MoveWrite_stageOnly(opp, new_stage) == [opp EXCEPT !.stage = new_stage]

\* opp.stage = new_stage; opp.primary_owner = required_owner
MoveWrite(opp, new_stage) ==
    [opp EXCEPT !.stage = new_stage, !.primary_owner = STAGE_OWNERS(new_stage)]

\* the stage written and committed before the authority gate is checked
ApiOpportunityMove_writeFirst(id, data) ==
    /\ boot = "ready"
    /\ sess = <<>>
    /\ IF id \notin 1..Len(opps)
       THEN resp' = NotFound("move") /\ UNCHANGED opps
       ELSE LET r == MoveOutcome(opps[id].stage,
                                 clients[opps[id].client_id].ai_readiness_score,
                                 data)
            IN /\ resp' = r
               /\ opps' = IF r.status \in {200, 403}
                          THEN [opps EXCEPT ![id] = MoveWrite(opps[id], data.stage[1])]
                          ELSE opps
    /\ UNCHANGED <<boot, now, users, clients, leads, sess, perms, flags>>

\* POST /api/opportunity/<id>/move, served alone
ApiOpportunityMove(id, data) ==
    /\ boot = "ready"
    /\ sess = <<>>
    /\ IF id \notin 1..Len(opps)
       THEN resp' = NotFound("move") /\ UNCHANGED opps
       ELSE LET r == MoveOutcome(opps[id].stage,
                                 clients[opps[id].client_id].ai_readiness_score,
                                 data)
            IN /\ resp' = r
               /\ opps' = IF r.status = 200
                          THEN [opps EXCEPT ![id] = MoveWrite(opps[id], r.stage)]
                          ELSE opps
    /\ UNCHANGED <<boot, now, users, clients, leads, sess, perms, flags>>

\* the forms a client_add POST is drawn from (a key absent takes the
\* default of request.form.get)
BaseForm ==
    [name |-> "Acme", revenue |-> None, services_revenue |-> None,
     ai_product_revenue |-> None, legacy_systems |-> None,
     ai_readiness_score |-> None, trust_level |-> None,
     data_foundation_service_active |-> FALSE, use_case_documented |-> FALSE,
     delivery_capacity_confirmed |-> FALSE, prior_pilot_success |-> FALSE,
     handoff_checklist_complete |-> FALSE]

AddForms == {[BaseForm EXCEPT !.ai_readiness_score = Some(49)]}

\* the Client row client_add builds from a form at time t
ClientOfForm(form, t) ==
    LET rev == Get(form.revenue, 0)
        svc == Get(form.services_revenue, (rev * 7) \div 10)
        ai == Get(form.ai_product_revenue, (rev * 3) \div 10)
    IN [ClientDefaults EXCEPT
          !.name = form.name,
          !.legacy_systems = Some(Get(form.legacy_systems, <<>>)),
          !.ai_readiness_score = Some(Get(form.ai_readiness_score, 50)),
          !.revenue = Some(rev), !.services_revenue = Some(svc),
          !.ai_product_revenue = Some(ai),
          !.trust_level = Some(Get(form.trust_level, 50)),
          !.data_foundation_service_active = form.data_foundation_service_active,
          !.use_case_documented = form.use_case_documented,
          !.delivery_capacity_confirmed = form.delivery_capacity_confirmed,
          !.prior_pilot_success = form.prior_pilot_success,
          !.handoff_checklist_complete = form.handoff_checklist_complete,
          !.engagement_start_date = Some(t), !.last_delivery_update = Some(t),
          !.created_at = Some(t)]

\* Opportunity(client_id=c.id, name="New opportunity", stage="qualified_lead",
\* primary_owner="Sales")
NewOpportunity(cid) == Opportunity(cid, "qualified_lead", "Sales")

\* POST /client/add
ClientAdd(u, form) ==
    /\ boot = "ready"
    /\ sess = <<>>
    /\ Len(clients) < MaxClients
    /\ IF ~can_grant_permissions(u)
       THEN /\ resp' = Response("client_add", 302, "Only CEO or Strategy Lead can add clients directly.")
            /\ UNCHANGED <<clients, opps>>
       ELSE /\ clients' = Append(clients, ClientOfForm(form, now))
            /\ opps' = Append(opps, NewOpportunity(Len(clients) + 1))
            /\ resp' = Response("client_add", 302, "")
    /\ UNCHANGED <<boot, now, users, leads, sess, perms, flags>>

\* the Client row lead_convert builds from a lead at time t
ClientOfLead(lead, t) ==
    [ClientDefaults EXCEPT
       !.name = lead.name,
       !.legacy_systems = Some(lead.notes),
       !.ai_readiness_score = Some(50), !.revenue = Some(0),
       !.services_revenue = Some(0), !.ai_product_revenue = Some(0),
       !.trust_level = Some(50), !.engagement_start_date = Some(t),
       !.last_delivery_update = Some(t), !.created_at = Some(t)]

\* the leads that may exist (lead_add stops adding there)
MaxLeads == 2

\* the forms a lead_add or lead_edit POST is drawn from: the status key
\* absent or present
LeadForms ==
    {[name |-> <<" ", "x">>, status |-> st, notes |-> <<>>] :
        st \in {None, Some("new"), Some("lost")}}

\* POST /leads/add
LeadAdd(u, form) ==
    /\ boot = "ready"
    /\ sess = <<>>
    /\ Len(leads) < MaxLeads
    /\ leads' = Append(leads, [name |-> Strip(form.name),
                               status |-> Get(form.status, "new"),
                               converted_to_client_id |-> None,
                               notes |-> form.notes])
    /\ resp' = Response("lead_add", 302, "")
    /\ UNCHANGED <<boot, now, users, clients, opps, sess, perms, flags>>

\* POST /leads/<id>/edit
LeadEdit(u, id, form) ==
    /\ boot = "ready"
    /\ sess = <<>>
    /\ IF id \notin 1..Len(leads)
       THEN resp' = NotFound("lead_edit") /\ UNCHANGED leads
       ELSE /\ leads' = [leads EXCEPT ![id].name = Strip(form.name),
                                      ![id].status = Get(form.status, leads[id].status),
                                      ![id].notes = form.notes]
            /\ resp' = Response("lead_edit", 302, "")
    /\ UNCHANGED <<boot, now, users, clients, opps, sess, perms, flags>>

\* the check of converted_to_client_id left out
LeadConvert_noCheck(u, id) ==
    /\ boot = "ready"
    /\ sess = <<>>
    /\ (can_grant_permissions(u) /\ id \in 1..Len(leads)) => Len(clients) < MaxClients
    /\ IF ~can_grant_permissions(u)
       THEN /\ resp' = Response("lead_convert", 302, "Only CEO or Strategy Lead can convert leads.")
            /\ UNCHANGED <<clients, opps, leads>>
       ELSE IF id \notin 1..Len(leads)
       THEN resp' = NotFound("lead_convert") /\ UNCHANGED <<clients, opps, leads>>
       ELSE /\ clients' = Append(clients, ClientOfLead(leads[id], now))
            /\ leads' = [leads EXCEPT ![id].status = "converted",
                                      ![id].converted_to_client_id = Some(Len(clients) + 1)]
            /\ opps' = Append(opps, NewOpportunity(Len(clients) + 1))
            /\ resp' = Response("lead_convert", 302, "")
    /\ UNCHANGED <<boot, now, users, sess, perms, flags>>

\* POST /leads/<id>/convert (a conversion is served while fewer than
\* MaxClients clients exist)
LeadConvert(u, id) ==
    /\ boot = "ready"
    /\ sess = <<>>
    /\ ( /\ can_grant_permissions(u)
         /\ id \in 1..Len(leads)
         /\ leads[id].converted_to_client_id = None )
       => Len(clients) < MaxClients
    /\ IF ~can_grant_permissions(u)
       THEN /\ resp' = Response("lead_convert", 302, "Only CEO or Strategy Lead can convert leads.")
            /\ UNCHANGED <<clients, opps, leads>>
       ELSE IF id \notin 1..Len(leads)
       THEN resp' = NotFound("lead_convert") /\ UNCHANGED <<clients, opps, leads>>
       ELSE IF leads[id].converted_to_client_id # None
       THEN /\ resp' = Response("lead_convert", 302, "Lead already converted.")
            /\ UNCHANGED <<clients, opps, leads>>
       ELSE /\ clients' = Append(clients, ClientOfLead(leads[id], now))
            /\ leads' = [leads EXCEPT ![id].status = "converted",
                                      ![id].converted_to_client_id = Some(Len(clients) + 1)]
            /\ opps' = Append(opps, NewOpportunity(Len(clients) + 1))
            /\ resp' = Response("lead_convert", 302, "")
    /\ UNCHANGED <<boot, now, users, sess, perms, flags>>

-----------------------------------------------------------------------------
(* services/priority_score.py and the score helpers of app.py.  A money    *)
(* amount or a score is an integer; a value rounded to two decimals by     *)
(* round(x, 2) is held as an integer number of hundredths; an elapsed time *)
(* is a number of tenths of a day, so the floor of 0.1 day is 1.           *)

Max(a, b) == IF a >= b THEN a ELSE b
Min(a, b) == IF a <= b THEN a ELSE b

\* round(n / d, 2) for d > 0, in hundredths: the nearest hundredth, a tie
\* going to the even one
Round2(n, d) ==
    LET q == (100 * n) \div d
        r == (100 * n) - q * d
    IN IF 2 * r < d THEN q
       ELSE IF 2 * r > d THEN q + 1
       ELSE IF q % 2 = 0 THEN q ELSE q + 1

\* the quotient taken as a product
calculate_priority_score_times(revenue, ai_readiness_score, last_delivery_update, t) ==
    LET rev == Get(revenue, 0)
        readiness == Get(ai_readiness_score, 0)
        last == Get(last_delivery_update, t)
        days_since == Max(t - last, 1)
    IN Round2(rev * readiness * days_since, Day)

\* the floor of the divisor at one day in place of 0.1 day
calculate_priority_score_floorDay(revenue, ai_readiness_score, last_delivery_update, t) ==
    LET rev == Get(revenue, 0)
        readiness == Get(ai_readiness_score, 0)
        last == Get(last_delivery_update, t)
        days_since == Max(t - last, Day)
    IN Round2(rev * readiness * Day, days_since)

\* calculate_priority_score at time t, in hundredths:
\* (revenue * ai_readiness_score) / (days_since / Day) with days_since in
\* tenths of a day
calculate_priority_score(revenue, ai_readiness_score, last_delivery_update, t) ==
    LET rev == Get(revenue, 0)
        readiness == Get(ai_readiness_score, 0)
        last == Get(last_delivery_update, t)
        days_since == Max(t - last, 1)
    IN Round2(rev * readiness * Day, days_since)

\* the page priority computed from the revenue whatever can_see says
page_priority_seeAll(c, can_see, t) ==
    calculate_priority_score(
        Some(OrNum(c.revenue, 0)),
        Some(OrNum(c.ai_readiness_score, 0)),
        Some(Get(c.last_delivery_update, t)), t)

\* the priority_score of the pages /clients and /client/<id> for a row c
page_priority(c, can_see, t) ==
    calculate_priority_score(
        Some(IF can_see THEN OrNum(c.revenue, 0) ELSE 0),
        Some(OrNum(c.ai_readiness_score, 0)),
        Some(Get(c.last_delivery_update, t)), t)

-----------------------------------------------------------------------------
(* Confidential access: services/auth_utils.py and client_permissions.     *)
(* The table client_permissions has no uniqueness constraint: it is a bag  *)
(* of rows (user_id, client_id, granted_by_id), perms[row] being the       *)
(* number of rows of that value.                                           *)

ClientPermission(user_id, client_id, granted_by_id) ==
    [user_id |-> user_id, client_id |-> client_id, granted_by_id |-> granted_by_id]

\* ClientPermission.query.filter_by(user_id=.., client_id=..)
FilterBy(ps, user_id, client_id) ==
    {row \in DOMAIN ps : row.user_id = user_id /\ row.client_id = client_id}

\* db.session.add(perm); db.session.commit()
InsertRow(ps, row) ==
    IF row \in DOMAIN ps THEN [ps EXCEPT ![row] = @ + 1] ELSE ps @@ (row :> 1)

\* ClientPermission.query.filter_by(..).delete(); db.session.commit()
DeleteRows(ps, user_id, client_id) ==
    [row \in DOMAIN ps \ FilterBy(ps, user_id, client_id) |-> ps[row]]

\* the rows of the table for (user_id, client_id)
RowCount(ps, user_id, client_id) ==
    LET rows == FilterBy(ps, user_id, client_id)
        RECURSIVE Sum(_)
        Sum(rs) == IF rs = {} THEN 0
                   ELSE LET r == CHOOSE x \in rs : TRUE IN ps[r] + Sum(rs \ {r})
    IN Sum(rows)

\* a role check that forgets the grant is per client
can_view_confidential_anyClient(u, cid) ==
    IF ~is_authenticated(u) THEN FALSE
    ELSE IF has_full_access(users[u].role) THEN TRUE
    ELSE \E row \in DOMAIN perms : row.user_id = u

\* services/auth_utils.py can_view_confidential, current_user being u
can_view_confidential(u, cid) ==
    IF ~is_authenticated(u) THEN FALSE
    ELSE IF has_full_access(users[u].role) THEN TRUE
    ELSE FilterBy(perms, u, cid) # {}

\* the page GET /client/<id> renders for current_user u from the client
\* table cs at time t: the can_view_confidential flag and the priority_score
DetailPage(u, id, cs, t) ==
    IF id \notin 1..Len(cs) THEN NotFound("client_detail")
    ELSE [Response("client_detail", 200, "") EXCEPT
             !.can_view_confidential = can_view_confidential(u, id),
             !.priority = page_priority(cs[id], can_view_confidential(u, id), t)]

\* GET /client/<id>, current_user being u
ClientDetail(u, id) ==
    /\ boot = "ready"
    /\ sess = <<>>
    /\ resp' = DetailPage(u, id, clients, now)
    /\ UNCHANGED <<boot, now, users, clients, opps, leads, sess, perms, flags>>

\* the forms a client_permissions POST is drawn from: the action, and
\* user_id as request.form.get("user_id", type=int) reads it (absent or not
\* an integer: None); user 2 has full access, user 3 is the employee
PermActions == {"grant", "revoke", "other"}
PermUserIds == {None, Some(0), Some(2), Some(3)}

\* the grant branch without its existence check
PermOutcome_noCheck(ps, u, id, action, user_id) ==
    IF action = "grant" /\ OrNum(user_id, 0) # 0
    THEN InsertRow(ps, ClientPermission(user_id[1], id, u))
    ELSE IF action = "revoke" /\ OrNum(user_id, 0) # 0
    THEN DeleteRows(ps, user_id[1], id)
    ELSE ps

\* the table after the POST branch of client_permissions
PermOutcome(ps, u, id, action, user_id) ==
    IF action = "grant" /\ OrNum(user_id, 0) # 0
    THEN IF FilterBy(ps, user_id[1], id) # {} THEN ps
         ELSE InsertRow(ps, ClientPermission(user_id[1], id, u))
    ELSE IF action = "revoke" /\ OrNum(user_id, 0) # 0
    THEN DeleteRows(ps, user_id[1], id)
    ELSE ps

MsgManagePermissions == "Only CEO or Strategy Lead can manage permissions."

\* the permission check of client_permissions left out
ClientPermissions_noRoleCheck(u, id, action, user_id) ==
    /\ boot = "ready"
    /\ sess = <<>>
    /\ IF id \notin 1..Len(clients)
       THEN resp' = NotFound("client_permissions") /\ UNCHANGED perms
       ELSE /\ perms' = PermOutcome(perms, u, id, action, user_id)
            /\ resp' = Response("client_permissions", 302, "")
    /\ UNCHANGED <<boot, now, users, clients, opps, leads, sess, flags>>

\* POST /client/<id>/permissions, current_user being u, served alone
ClientPermissions(u, id, action, user_id) ==
    /\ boot = "ready"
    /\ sess = <<>>
    /\ IF ~can_grant_permissions(u)
       THEN /\ resp' = Response("client_permissions", 302, MsgManagePermissions)
            /\ UNCHANGED perms
       ELSE IF id \notin 1..Len(clients)
       THEN resp' = NotFound("client_permissions") /\ UNCHANGED perms
       ELSE /\ perms' = PermOutcome(perms, u, id, action, user_id)
            /\ resp' = Response("client_permissions", 302, "")
    /\ UNCHANGED <<boot, now, users, clients, opps, leads, sess, flags>>

-----------------------------------------------------------------------------
(* Risk flags: models.py RiskFlag, app.py add_risk_flag and api_acknowledge *)

\* RiskFlag(client_id=..., project_name=..., message=..., severity=...) as
\* add_risk_flag builds it from a form without project_name and severity;
\* acknowledged takes its column default
RiskFlag(client_id, message) ==
    [client_id |-> client_id, project_name |-> "", message |-> message,
     severity |-> "high", acknowledged |-> FALSE]

MsgNoRiskFlagAccess == "You do not have access to add risk flags for this client."

\* POST /risk-flag/add, current_user being u; client_id as
\* request.form.get("client_id", type=int) reads it
AddRiskFlag(u, client_id, message) ==
    /\ boot = "ready"
    /\ sess = <<>>
    /\ IF OrNum(client_id, 0) \notin 1..Len(clients)
       THEN resp' = NotFound("add_risk_flag") /\ UNCHANGED flags
       ELSE IF ~can_view_confidential(u, client_id[1])
       THEN /\ resp' = Response("add_risk_flag", 302, MsgNoRiskFlagAccess)
            /\ UNCHANGED flags
       ELSE IF Strip(message) = <<>>
       THEN /\ resp' = Response("add_risk_flag", 400, "Message required")
            /\ UNCHANGED flags
       ELSE /\ flags' = Append(flags, RiskFlag(client_id[1], Strip(message)))
            /\ resp' = Response("add_risk_flag", 302, "")
    /\ UNCHANGED <<boot, now, users, clients, opps, leads, sess, perms>>

\* the flag toggled in place of set
ApiAcknowledge_toggle(u, id) ==
    /\ boot = "ready"
    /\ sess = <<>>
    /\ IF id \notin 1..Len(flags)
       THEN resp' = NotFound("api_acknowledge") /\ UNCHANGED flags
       ELSE /\ flags' = [flags EXCEPT ![id].acknowledged = ~@]
            /\ resp' = Response("api_acknowledge", 200, "")
    /\ UNCHANGED <<boot, now, users, clients, opps, leads, sess, perms>>

\* POST /api/alerts/<id>/acknowledge, current_user being u
ApiAcknowledge(u, id) ==
    /\ boot = "ready"
    /\ sess = <<>>
    /\ IF id \notin 1..Len(flags)
       THEN resp' = NotFound("api_acknowledge") /\ UNCHANGED flags
       ELSE /\ flags' = [flags EXCEPT ![id].acknowledged = TRUE]
            /\ resp' = Response("api_acknowledge", 200, "")
    /\ UNCHANGED <<boot, now, users, clients, opps, leads, sess, perms>>

\* c.risk_flags.filter_by(acknowledged=False).count()
risk_count(fs, cid) ==
    Cardinality({i \in 1..Len(fs) : fs[i].client_id = cid /\ ~fs[i].acknowledged})

-----------------------------------------------------------------------------
(* The score pages of app.py *)

\* a call of calculate_priority_score on the columns of client cid as stored
PriorityScoreCall(cid) ==
    /\ boot = "ready"
    /\ sess = <<>>
    /\ cid \in 1..Len(clients)
    /\ resp' = [Response("calculate_priority_score", 200, "") EXCEPT
                   !.priority = calculate_priority_score(
                                   clients[cid].revenue,
                                   clients[cid].ai_readiness_score,
                                   clients[cid].last_delivery_update, now)]
    /\ UNCHANGED <<boot, now, users, clients, opps, leads, sess, perms, flags>>

\* _days_since at time t, in tenths of a day (a datetime is always truthy:
\* `not dt` is `dt is None`)
days_since(dt, t) == IF dt = None THEN 0 ELSE Max(t - dt[1], 1)

\* int(x) of the quotient n / d for d > 0: truncation towards zero
IntDiv(n, d) == IF n >= 0 THEN n \div d ELSE -((-n) \div d)

\* the health score without its lower clamp
health_score_noFloor(c, cid, fs, t) ==
    Min(100, OrNum(c.ai_readiness_score, 0) - (risk_count(fs, cid) * 10)
             - IntDiv(days_since(c.last_delivery_update, t), 7 * Day))

\* client_health: the health_score of the row of client cid, c = clients[cid]
health_score(c, cid, fs, t) ==
    Max(0, Min(100, OrNum(c.ai_readiness_score, 0) - (risk_count(fs, cid) * 10)
                    - IntDiv(days_since(c.last_delivery_update, t), 7 * Day)))

\* list.sort(key=...): a stable sort of rows by their field key, ascending
RECURSIVE InsertByKey(_, _)
InsertByKey(sorted, row) ==
    IF sorted = <<>> THEN <<row>>
    ELSE IF Head(sorted).key <= row.key
         THEN <<Head(sorted)>> \o InsertByKey(Tail(sorted), row)
         ELSE <<row>> \o sorted

RECURSIVE SortByKey(_)
SortByKey(rows) ==
    IF rows = <<>> THEN <<>>
    ELSE InsertByKey(SortByKey(SubSeq(rows, 1, Len(rows) - 1)), rows[Len(rows)])

\* GET /client-health, current_user being u: health_data, sorted by
\* health_score
ClientHealth(u) ==
    /\ boot = "ready"
    /\ sess = <<>>
    /\ resp' = [Response("client_health", 200, "") EXCEPT
                   !.rows = SortByKey(
                      [cid \in 1..Len(clients) |->
                          [key |-> health_score(clients[cid], cid, flags, now),
                           client |-> cid,
                           health_score |-> health_score(clients[cid], cid, flags, now),
                           days_since_update |->
                               days_since(clients[cid].last_delivery_update, now),
                           risk_count |-> risk_count(flags, cid),
                           can_view_confidential |-> can_view_confidential(u, cid)]])]
    /\ UNCHANGED <<boot, now, users, clients, opps, leads, sess, perms, flags>>

\* a sum of quotients held exactly, as a fraction
Frac(num, den) == [num |-> num, den |-> den]

\* _compute_revenue_velocity before rounding: the total over clients cs[i..],
\* added to the fraction acc, in units per day
RECURSIVE VelocityTotal(_, _, _, _)
VelocityTotal(cs, i, t, acc) ==
    IF i > Len(cs) THEN acc
    ELSE LET days == days_since(cs[i].last_delivery_update, t)
             rev == OrNum(cs[i].revenue, 0)
         IN IF days > 0 /\ rev > 0
            THEN VelocityTotal(cs, i + 1, t,
                     Frac(acc.num * days + rev * Day * acc.den, acc.den * days))
            ELSE VelocityTotal(cs, i + 1, t, acc)

\* _compute_revenue_velocity at time t, in hundredths
compute_revenue_velocity(cs, t) ==
    LET total == VelocityTotal(cs, 1, t, Frac(0, 1))
    IN Round2(total.num, total.den)

RECURSIVE SumOr0(_, _)
\* sum(c.<column> or 0 for c in clients), column being a function of the row
SumOr0(vals, i) ==
    IF i > Len(vals) THEN 0 ELSE OrNum(vals[i], 0) + SumOr0(vals, i + 1)

\* the page GET /clients renders for current_user u from the client table
\* cs at time t: rows, sorted by priority_score, highest first
ClientsPage(u, cs, t) ==
    [Response("clients", 200, "") EXCEPT
        !.rows = SortByKey(
           [cid \in 1..Len(cs) |->
               LET can_see == can_view_confidential(u, cid)
                   priority == page_priority(cs[cid], can_see, t)
               IN [key |-> -priority,
                   client |-> cid,
                   priority_score |-> priority,
                   days_since_update |-> days_since(cs[cid].last_delivery_update, t),
                   can_view_confidential |-> can_see]])]

\* GET /clients, current_user being u
ClientsList(u) ==
    /\ boot = "ready"
    /\ sess = <<>>
    /\ resp' = ClientsPage(u, clients, now)
    /\ UNCHANGED <<boot, now, users, clients, opps, leads, sess, perms, flags>>

\* _build_trust_revenue_matrix: the entry of client cid, c = clients[cid],
\* and the bucket it is appended to; ai_pct = (ai_rev / rev) * 100 is shown
\* rounded to one decimal and held in tenths
trust_revenue_entry(c, cid, include_revenue) ==
    LET trust == OrNum(c.trust_level, 50)
        rev == IF include_revenue THEN OrNum(c.revenue, 0) ELSE 0
        ai_rev == OrNum(c.ai_product_revenue, 0)
        high_trust == trust >= 60
        high_ai == rev > 0 /\ ai_rev * 100 >= 30 * rev
    IN [id |-> cid, trust |-> trust,
        ai_pct |-> IF rev > 0 THEN Round2(ai_rev * 10, rev) ELSE 0,
        bucket |-> IF high_trust /\ ~high_ai THEN "high_trust_low_ai"
                   ELSE IF ~high_trust /\ high_ai THEN "low_trust_high_ai"
                   ELSE IF high_trust /\ high_ai THEN "high_trust_high_ai"
                   ELSE "low_trust_low_ai"]

\* the page GET /dashboard renders for current_user u from the client table
\* cs at time t: its revenue figures.  The three totals are held in tenths
\* of a unit (total_revenue * 0.7 and * 0.3 are then integers),
\* revenue_velocity in hundredths; rows holds the entries of
\* trust_revenue_matrix.
DashboardPage(u, cs, t) ==
    LET has_full == has_full_access(users[u].role)
        total_revenue ==
            IF has_full THEN SumOr0([i \in 1..Len(cs) |-> cs[i].revenue], 1) ELSE 0
        services_revenue ==
            IF has_full
            THEN SumOr0([i \in 1..Len(cs) |-> cs[i].services_revenue], 1) ELSE 0
        ai_revenue ==
            IF has_full
            THEN SumOr0([i \in 1..Len(cs) |-> cs[i].ai_product_revenue], 1) ELSE 0
        split == has_full /\ services_revenue = 0 /\ ai_revenue = 0
    IN [Response("dashboard", 200, "") EXCEPT
           !.total_revenue = 10 * total_revenue,
           !.services_revenue =
               IF split THEN 7 * total_revenue ELSE 10 * services_revenue,
           !.ai_product_revenue =
               IF split THEN 3 * total_revenue ELSE 10 * ai_revenue,
           !.revenue_velocity =
               IF has_full THEN compute_revenue_velocity(cs, t) ELSE 0,
           !.rows = [cid \in 1..Len(cs) |->
                        trust_revenue_entry(cs[cid], cid, has_full)],
           !.can_view_confidential = has_full]

\* GET /dashboard, current_user being u
Dashboard(u) ==
    /\ boot = "ready"
    /\ sess = <<>>
    /\ resp' = DashboardPage(u, clients, now)
    /\ UNCHANGED <<boot, now, users, clients, opps, leads, sess, perms, flags>>

-----------------------------------------------------------------------------
(* services/llm_analyzer.py and analyze_account.  A list of strings is a   *)
(* sequence of strings; json.dumps of it is the text "[" items "]", every  *)
(* quoted item a non-blank character and ", " between two items.          *)

RECURSIVE JsonItems(_)
JsonItems(list) ==
    IF list = <<>> THEN <<>>
    ELSE IF Len(list) = 1 THEN <<"x">>
    ELSE <<"x", "x", " ">> \o JsonItems(Tail(list))

\* _to_json of a list
to_json(list) == <<"[">> \o JsonItems(list) \o <<"]">>

\* the analysis result: a dict of three optional keys
AnalysisResult(use_cases, blockers, stakeholders) ==
    [is_dict |-> TRUE, potential_ai_use_cases |-> use_cases,
     technical_blockers |-> blockers, key_stakeholders |-> stakeholders]

\* a JSON value that is no dict (a list, a string, a number)
NotADict == [AnalysisResult(None, None, None) EXCEPT !.is_dict = FALSE]

\* _mock_analysis: hits are the use cases the keywords of the notes select,
\* for notes that name no blocker and no stakeholder
mock_analysis(hits) ==
    AnalysisResult(
        Some(IF hits = <<>>
             THEN <<"General process improvement (review notes for specifics)">>
             ELSE hits),
        Some(<<>>),
        Some(<<"Account owner", "Delivery lead">>))

\* the use cases the keywords of non-blank notes may select
KeywordHits == {<<>>, <<"Process automation">>,
                <<"Process automation", "Analytics and reporting">>}

\* the except branch of _call_openai
ApiError ==
    AnalysisResult(Some(<<"API error: ...">>), Some(<<>>), Some(<<>>))

\* what json.loads(text) of the backend's answer may be: a dict with the
\* key potential_ai_use_cases absent, an empty list or a list of one use
\* case; or JSON that is no dict
LiveAnswers ==
    {AnalysisResult(uc, Some(<<>>), Some(<<>>)) :
        uc \in {None, Some(<<>>), Some(<<"Claims triage">>)}}
    \cup {NotADict}

\* analyze_delivery_notes: the values it may return.  Without an API key
\* (or without the openai package) the result is _mock_analysis; with one
\* it is the backend's answer, or ApiError when the call or json.loads
\* raises.
AnalysisOutcomes ==
    {mock_analysis(hits) : hits \in KeywordHits} \cup {ApiError} \cup LiveAnswers

\* request.form.get("delivery_notes") or client.delivery_notes or ""
NotesOf(form_notes, c) ==
    IF form_notes # None /\ form_notes[1] # <<>> THEN form_notes[1]
    ELSE IF c.delivery_notes # None /\ c.delivery_notes[1] # <<>>
    THEN c.delivery_notes[1]
    ELSE <<>>

MsgNoAnalyzeAccess == "You do not have access to analyze this account."

\* POST /analyze-account/<id>, current_user being u, analyze_delivery_notes
\* returning result
AnalyzeAccount(u, id, form_notes, result) ==
    /\ boot = "ready"
    /\ sess = <<>>
    /\ IF id \notin 1..Len(clients)
       THEN resp' = NotFound("analyze_account") /\ UNCHANGED clients
       ELSE IF ~can_view_confidential(u, id)
       THEN /\ resp' = Response("analyze_account", 302, MsgNoAnalyzeAccess)
            /\ UNCHANGED clients
       ELSE IF Strip(NotesOf(form_notes, clients[id])) = <<>>
       THEN /\ resp' = Response("analyze_account", 400, "No delivery notes provided")
            /\ UNCHANGED clients
       ELSE IF ~result.is_dict
       THEN /\ resp' = Response("analyze_account", 500, "Internal Server Error")
            /\ UNCHANGED clients
       ELSE /\ clients' =
                 [clients EXCEPT
                    ![id].ai_use_cases =
                        Some(to_json(Get(result.potential_ai_use_cases, <<>>))),
                    ![id].technical_blockers =
                        Some(to_json(Get(result.technical_blockers, <<>>))),
                    ![id].key_stakeholders =
                        Some(to_json(Get(result.key_stakeholders, <<>>))),
                    ![id].delivery_notes = Some(NotesOf(form_notes, clients[id])),
                    ![id].analysis_updated_at = Some(now)]
            /\ resp' = Response("analyze_account", 302, "")
    /\ UNCHANGED <<boot, now, users, opps, leads, sess, perms, flags>>

-----------------------------------------------------------------------------
(* client_edit *)

\* the forms a client_edit POST is drawn from: assigned_to_id and
\* approver_id as request.form.get(.., type=int) reads them
EditForms ==
    {[assigned_to_id |-> Some(0), approver_id |-> None, ai_feature_request |-> None],
     [assigned_to_id |-> Some(3), approver_id |-> Some(2),
      ai_feature_request |-> Some(<<" ", "x">>)]}

\* `v or None` for an optional integer
OrNone(o) == IF OrNum(o, 0) = 0 THEN None ELSE o

MsgEditAssignment == "Only CEO or Strategy Lead can edit client assignment."

\* the row client_edit leaves, had it also taken ai_readiness_score from
\* the form (absent: 50) as client_add does
EditedClient_writesScore(c, form) ==
    [c EXCEPT !.assigned_to_id = OrNone(form.assigned_to_id),
              !.approver_id = OrNone(form.approver_id),
              !.ai_feature_request = Some(Strip(Get(form.ai_feature_request, <<>>))),
              !.ai_readiness_score = Some(50)]

\* the row the POST branch of client_edit leaves
EditedClient(c, form) ==
    [c EXCEPT !.assigned_to_id = OrNone(form.assigned_to_id),
              !.approver_id = OrNone(form.approver_id),
              !.ai_feature_request = Some(Strip(Get(form.ai_feature_request, <<>>)))]

\* POST /client/<id>/edit, current_user being u
ClientEdit(u, id, form) ==
    /\ boot = "ready"
    /\ sess = <<>>
    /\ IF id \notin 1..Len(clients)
       THEN resp' = NotFound("client_edit") /\ UNCHANGED clients
       ELSE IF ~can_grant_permissions(u)
       THEN /\ resp' = Response("client_edit", 302, MsgEditAssignment)
            /\ UNCHANGED clients
       ELSE /\ clients' = [clients EXCEPT ![id] = EditedClient(clients[id], form)]
            /\ resp' = Response("client_edit", 302, "")
    /\ UNCHANGED <<boot, now, users, opps, leads, sess, perms, flags>>

-----------------------------------------------------------------------------
(* The application served one request at a time *)

\* a row of an older database: the clients table predates the users and
\* leads tables, its rows have no opportunity, and a column that had no
\* value is NULL
LegacyClient ==
    [ClientDefaults EXCEPT !.name = "Legacy account",
                           !.legacy_systems = Some(Text),
                           !.ai_readiness_score = None]

NoResponse == Response("", 0, "")

Init ==
    /\ boot = "seed"
    /\ now = 0
    /\ users = <<>>
    /\ clients \in {<<>>, <<LegacyClient>>}
    /\ opps = <<>>
    /\ leads = <<>>
    /\ resp = NoResponse
    /\ sess = <<>>
    /\ perms = <<>>
    /\ flags = <<>>

Next ==
    \/ SeedIfEmpty
    \/ EnsureOpportunities
    \/ SeedUsersIfEmpty
    \/ SeedLeadsIfEmpty
    \/ \E op \in Routes : AnonymousRequest(op)
    \/ \E u \in LoggedIn, form \in AddForms : ClientAdd(u, form)
    \/ \E u \in LoggedIn, id \in 1..(Len(leads) + 1) : LeadConvert(u, id)
    \/ \E id \in 1..(Len(opps) + 1), data \in MoveData : ApiOpportunityMove(id, data)

Spec == Init /\ [][Next]_vars

-----------------------------------------------------------------------------
(* Move requests served concurrently (the development server is threaded;  *)
(* each request has its own session).  A request reads the opportunity row *)
(* into its session, decides on that copy, and its commit flushes one      *)
(* UPDATE of that row.  The UPDATE the session emits sets the columns      *)
(* whose value differs from the value loaded: an attribute assigned the    *)
(* value it already had is not part of it.                                 *)

Slots == 1..MaxInFlight
Idle == [id |-> 0]

\* the columns of the UPDATE for a row loaded as `loaded` and now `new`
FlushColumns(loaded, new) ==
    {c \in {"stage", "primary_owner"} : new[c] # loaded[c]}

\* the row after `UPDATE opportunities SET <cols of new> WHERE id = ..`
Update(row, cols, new) ==
    [c \in DOMAIN row |-> IF c \in cols THEN new[c] ELSE row[c]]

\* api_opportunity_move up to the commit: get_or_404, the gates on the copy
\* loaded, the two assignments
MoveBegin(r, id, data) ==
    /\ boot = "ready"
    /\ sess # <<>>
    /\ sess[r] = Idle
    /\ id \in 1..Len(opps)
    /\ LET out == MoveOutcome(opps[id].stage,
                              clients[opps[id].client_id].ai_readiness_score, data)
           new == IF out.status = 200 THEN MoveWrite(opps[id], out.stage) ELSE opps[id]
       IN sess' = [sess EXCEPT ![r] = [id |-> id, out |-> out, new |-> new,
                                       cols |-> FlushColumns(opps[id], new)]]
    /\ UNCHANGED <<boot, now, users, clients, opps, leads, resp, perms, flags>>

\* db.session.commit() and the response
MoveCommit(r) ==
    /\ sess # <<>>
    /\ sess[r] # Idle
    /\ opps' = [opps EXCEPT ![sess[r].id] = Update(@, sess[r].cols, sess[r].new)]
    /\ resp' = sess[r].out
    /\ sess' = [sess EXCEPT ![r] = Idle]
    /\ UNCHANGED <<boot, now, users, clients, leads, perms, flags>>

ConcInit ==
    /\ boot = "seed"
    /\ now = 0
    /\ users = <<>>
    /\ clients \in {<<>>, <<LegacyClient>>}
    /\ opps = <<>>
    /\ leads = <<>>
    /\ resp = NoResponse
    /\ sess = [r \in Slots |-> Idle]
    /\ perms = <<>>
    /\ flags = <<>>

\* the requests in flight all move the first opportunity
ConcNext ==
    \/ SeedIfEmpty
    \/ EnsureOpportunities
    \/ SeedUsersIfEmpty
    \/ SeedLeadsIfEmpty
    \/ \E r \in Slots, data \in MoveData : MoveBegin(r, 1, data)
    \/ \E r \in Slots : MoveCommit(r)

ConcSpec == ConcInit /\ [][ConcNext]_vars

-----------------------------------------------------------------------------
(* validate_deal on an arbitrary client row *)

\* the strings of at most n characters
RECURSIVE Strings(_)
Strings(n) ==
    IF n = 0 THEN {<<>>}
    ELSE Strings(n - 1) \cup {Append(s, c) : s \in {x \in Strings(n - 1) : Len(x) = n - 1},
                                             c \in Chars}

GuardClients ==
    {[ClientDefaults EXCEPT
         !.name = "Snapshot",
         !.legacy_systems = ls,
         !.data_foundation_service_active = dfs,
         !.ai_product_revenue = ai,
         !.revenue = rev,
         !.trust_level = trust,
         !.engagement_start_date = eng,
         !.prior_pilot_success = pilot,
         !.handoff_checklist_complete = handoff] :
       ls \in {None} \cup {Some(x) : x \in Strings(MaxLen)},
       dfs \in BOOLEAN,
       ai \in {None, Some(0), Some(60000)},
       rev \in {Some(0), Some(100000)},
       trust \in {Some(40), Some(50)},
       eng \in {None, Some(0 - 89 * Day), Some(0 - 200 * Day)},
       pilot \in BOOLEAN,
       handoff \in BOOLEAN}

GuardInit ==
    /\ boot = "ready"
    /\ now = 0
    /\ users = SeedUsers
    /\ clients \in {<<c>> : c \in GuardClients}
    /\ opps \in {<<Opportunity(1, st, STAGE_OWNERS(st))>> : st \in {"proposal", "contract"}}
    /\ leads = <<>>
    /\ resp = NoResponse
    /\ sess = <<>>
    /\ perms = <<>>
    /\ flags = <<>>

GuardNext ==
    \/ AnonymousRequest("validate_deal")
    \/ \E id \in 1..(Len(clients) + 1) : ValidateDealRoute(id)

GuardSpec == GuardInit /\ [][GuardNext]_vars

-----------------------------------------------------------------------------
(* validate_deal on client rows that differ in what rules 2 to 10 read *)

RuleClients ==
    {[ClientDefaults EXCEPT
         !.name = "Snapshot",
         !.legacy_systems = ls,
         !.data_foundation_service_active = dfs,
         !.ai_product_revenue = ai,
         !.trust_level = trust,
         !.engagement_start_date = eng,
         !.created_at = created,
         !.use_case_documented = documented,
         !.delivery_capacity_confirmed = documented,
         !.prior_pilot_success = pilot,
         !.handoff_checklist_complete = handoff] :
       ls \in {None, Some(<<"E", "R", "P">>)},
       dfs \in BOOLEAN,
       ai \in {None, Some(0), Some(50000), Some(60000)},
       trust \in {None, Some(0), Some(49), Some(50), Some(100)},
       eng \in {None, Some(0 - 90 * Day + 1), Some(0 - 180 * Day + 1), Some(0 - 180 * Day)},
       created \in {None, Some(0 - 90 * Day + 1), Some(0 - 180 * Day)},
       documented \in BOOLEAN,
       pilot \in BOOLEAN,
       handoff \in BOOLEAN}

RuleInit ==
    /\ boot = "ready"
    /\ now = 0
    /\ users = SeedUsers
    /\ clients \in {<<c>> : c \in RuleClients}
    /\ opps \in {<<Opportunity(1, st, STAGE_OWNERS(st))>> : st \in {"proposal", "contract"}}
    /\ leads = <<>>
    /\ resp = NoResponse
    /\ sess = <<>>
    /\ perms = <<>>
    /\ flags = <<>>

RuleNext ==
    \/ AnonymousRequest("validate_deal")
    \/ \E id \in 1..(Len(clients) + 1) : ValidateDealRoute(id)

RuleSpec == RuleInit /\ [][RuleNext]_vars

-----------------------------------------------------------------------------
(* Moves and validate_deal requests, served one at a time, on the seeded   *)
(* clients or on a row of an older database whose checklist is or is not   *)
(* complete.                                                               *)

HandoffInit ==
    /\ boot = "seed"
    /\ now = 0
    /\ users = <<>>
    /\ clients \in {<<>>} \cup
                   {<<[LegacyClient EXCEPT !.handoff_checklist_complete = h]>> :
                       h \in BOOLEAN}
    /\ opps = <<>>
    /\ leads = <<>>
    /\ resp = NoResponse
    /\ sess = <<>>
    /\ perms = <<>>
    /\ flags = <<>>

HandoffNext ==
    \/ SeedIfEmpty
    \/ EnsureOpportunities
    \/ SeedUsersIfEmpty
    \/ SeedLeadsIfEmpty
    \/ AnonymousRequest("validate_deal")
    \/ \E id \in 1..(Len(clients) + 1) : ValidateDealRoute(id)
    \/ \E id \in 1..(Len(opps) + 1), data \in MoveData : ApiOpportunityMove(id, data)

HandoffSpec == HandoffInit /\ [][HandoffNext]_vars

-----------------------------------------------------------------------------
(* Permission and client-page requests, served one at a time, on a         *)
(* database of two rows of an older database                                *)

PermInit ==
    /\ boot = "seed"
    /\ now = 0
    /\ users = <<>>
    /\ clients = <<LegacyClient, LegacyClient>>
    /\ opps = <<>>
    /\ leads = <<>>
    /\ resp = NoResponse
    /\ sess = <<>>
    /\ perms = <<>>
    /\ flags = <<>>

PermNext ==
    \/ SeedIfEmpty
    \/ EnsureOpportunities
    \/ SeedUsersIfEmpty
    \/ SeedLeadsIfEmpty
    \/ \E op \in {"client_permissions", "client_detail"} : AnonymousRequest(op)
    \/ \E u \in LoggedIn, id \in 1..(Len(clients) + 1) : ClientDetail(u, id)
    \/ \E u \in LoggedIn, id \in 1..(Len(clients) + 1),
          action \in PermActions, user_id \in PermUserIds :
          ClientPermissions(u, id, action, user_id)

PermSpec == PermInit /\ [][PermNext]_vars

-----------------------------------------------------------------------------
(* Grant requests served concurrently, each in its own session: the        *)
(* existence check of client_permissions reads the table, the insert is    *)
(* committed later, and other requests may commit in between.              *)

\* client_permissions with action = grant, up to the existence check: the
\* session holds the row to insert when no row was found
GrantBegin(r, u, id, user_id) ==
    /\ boot = "ready"
    /\ sess # <<>>
    /\ sess[r] = Idle
    /\ can_grant_permissions(u)
    /\ id \in 1..Len(clients)
    /\ sess' = [sess EXCEPT ![r] =
                  [id |-> id,
                   row |-> ClientPermission(user_id, id, u),
                   insert |-> FilterBy(perms, user_id, id) = {}]]
    /\ UNCHANGED <<boot, now, users, clients, opps, leads, resp, perms, flags>>

\* db.session.add(perm); db.session.commit() when no row was found, and
\* the redirect
GrantCommit(r) ==
    /\ sess # <<>>
    /\ sess[r] # Idle
    /\ perms' = IF sess[r].insert THEN InsertRow(perms, sess[r].row) ELSE perms
    /\ resp' = Response("client_permissions", 302, "")
    /\ sess' = [sess EXCEPT ![r] = Idle]
    /\ UNCHANGED <<boot, now, users, clients, opps, leads, flags>>

GrantConcInit ==
    /\ boot = "seed"
    /\ now = 0
    /\ users = <<>>
    /\ clients = <<LegacyClient, LegacyClient>>
    /\ opps = <<>>
    /\ leads = <<>>
    /\ resp = NoResponse
    /\ sess = [r \in Slots |-> Idle]
    /\ perms = <<>>
    /\ flags = <<>>

\* the grants in flight all name the employee (user 3)
GrantConcNext ==
    \/ SeedIfEmpty
    \/ EnsureOpportunities
    \/ SeedUsersIfEmpty
    \/ SeedLeadsIfEmpty
    \/ \E r \in Slots, u \in LoggedIn, id \in 1..Len(clients) : GrantBegin(r, u, id, 3)
    \/ \E r \in Slots : GrantCommit(r)

GrantConcSpec == GrantConcInit /\ [][GrantConcNext]_vars

-----------------------------------------------------------------------------
(* Lead requests, served one at a time *)

LeadInit ==
    /\ boot = "seed"
    /\ now = 0
    /\ users = <<>>
    /\ clients \in {<<>>, <<LegacyClient>>}
    /\ opps = <<>>
    /\ leads = <<>>
    /\ resp = NoResponse
    /\ sess = <<>>
    /\ perms = <<>>
    /\ flags = <<>>

LeadNext ==
    \/ SeedIfEmpty
    \/ EnsureOpportunities
    \/ SeedUsersIfEmpty
    \/ SeedLeadsIfEmpty
    \/ \E op \in {"lead_add", "lead_edit", "lead_convert"} : AnonymousRequest(op)
    \/ \E u \in LoggedIn, form \in LeadForms : LeadAdd(u, form)
    \/ \E u \in LoggedIn, id \in 1..(Len(leads) + 1), form \in LeadForms :
          LeadEdit(u, id, form)
    \/ \E u \in LoggedIn, id \in 1..(Len(leads) + 1) : LeadConvert(u, id)

LeadSpec == LeadInit /\ [][LeadNext]_vars

-----------------------------------------------------------------------------
(* Risk-flag requests, served one at a time, on a database of two rows of  *)
(* an older database; the employee may be granted access to a client       *)

MaxFlags == 2

FlagMessages == {<<>>, <<" ">>, <<"x", " ">>}

RiskInit ==
    /\ boot = "seed"
    /\ now = 0
    /\ users = <<>>
    /\ clients = <<LegacyClient, LegacyClient>>
    /\ opps = <<>>
    /\ leads = <<>>
    /\ resp = NoResponse
    /\ sess = <<>>
    /\ perms = <<>>
    /\ flags = <<>>

RiskNext ==
    \/ SeedIfEmpty
    \/ EnsureOpportunities
    \/ SeedUsersIfEmpty
    \/ SeedLeadsIfEmpty
    \/ \E op \in {"add_risk_flag", "api_acknowledge"} : AnonymousRequest(op)
    \/ \E id \in 1..Len(clients) : ClientPermissions(2, id, "grant", Some(3))
    \/ \E u \in LoggedIn, client_id \in {None, Some(0), Some(1), Some(2), Some(3)},
          message \in FlagMessages :
          /\ Len(flags) < MaxFlags
          /\ AddRiskFlag(u, client_id, message)
    \/ \E u \in LoggedIn, id \in 1..(Len(flags) + 1) : ApiAcknowledge(u, id)

RiskSpec == RiskInit /\ [][RiskNext]_vars

-----------------------------------------------------------------------------
(* The scores, on a database of two client rows and their risk flags: the  *)
(* first row is drawn from a grid of revenues, readiness scores and update *)
(* dates (a date after now is a row written under a clock that ran ahead), *)
(* the second is fixed                                                     *)

GridRevenue == {None, Some(-5), Some(0), Some(1), Some(7), Some(200)}
GridReadiness == {None, Some(-20), Some(0), Some(1), Some(50), Some(100), Some(130)}
GridUpdate == {None, Some(-700), Some(-75), Some(-70), Some(-69), Some(-1),
               Some(0), Some(5)}

ScoreClients ==
    {[ClientDefaults EXCEPT
         !.name = "Scored",
         !.revenue = rev,
         !.ai_readiness_score = readiness,
         !.last_delivery_update = last] :
       rev \in GridRevenue, readiness \in GridReadiness, last \in GridUpdate}

SecondClient ==
    [ClientDefaults EXCEPT
        !.name = "Second", !.revenue = Some(30), !.ai_readiness_score = Some(45),
        !.last_delivery_update = Some(-140)]

\* the risk flags of client 1: none, one open, two open, one of two
\* acknowledged
ScoreFlags ==
    LET open == RiskFlag(1, <<"x">>)
        done == [open EXCEPT !.acknowledged = TRUE]
    IN {<<>>, <<open>>, <<open, open>>, <<done, open>>}

ScoreInit ==
    /\ boot = "seed"
    /\ now = 0
    /\ users = <<>>
    /\ clients \in {<<c, SecondClient>> : c \in ScoreClients}
    /\ opps = <<>>
    /\ leads = <<>>
    /\ resp = NoResponse
    /\ sess = <<>>
    /\ perms = <<>>
    /\ flags \in ScoreFlags

ScoreNext ==
    \/ SeedIfEmpty
    \/ EnsureOpportunities
    \/ SeedUsersIfEmpty
    \/ SeedLeadsIfEmpty
    \/ \E op \in {"client_health", "dashboard"} : AnonymousRequest(op)
    \/ PriorityScoreCall(1)
    \/ \E u \in LoggedIn : ClientHealth(u)
    \/ \E u \in LoggedIn : Dashboard(u)

ScoreSpec == ScoreInit /\ [][ScoreNext]_vars

-----------------------------------------------------------------------------
(* The pages that show revenue figures, on a database of two client rows:  *)
(* the first drawn from a grid of revenue columns and trust levels, the     *)
(* second fixed; the employee may be granted access to a client            *)

ViewAmounts == {None, Some(0), Some(7), Some(200)}

ViewClients ==
    {[ClientDefaults EXCEPT
         !.name = "Viewed",
         !.revenue = rev,
         !.services_revenue = svc,
         !.ai_product_revenue = ai,
         !.trust_level = trust,
         !.last_delivery_update = Some(-70)] :
       rev \in ViewAmounts, svc \in {None, Some(5)}, ai \in ViewAmounts,
       trust \in {None, Some(40), Some(75)}}

ViewInit ==
    /\ boot = "seed"
    /\ now = 0
    /\ users = <<>>
    /\ clients \in {<<c, SecondClient>> : c \in ViewClients}
    /\ opps = <<>>
    /\ leads = <<>>
    /\ resp = NoResponse
    /\ sess = <<>>
    /\ perms = <<>>
    /\ flags = <<>>

ViewNext ==
    \/ SeedIfEmpty
    \/ EnsureOpportunities
    \/ SeedUsersIfEmpty
    \/ SeedLeadsIfEmpty
    \/ \E op \in {"clients", "client_detail", "dashboard"} : AnonymousRequest(op)
    \/ \E id \in 1..Len(clients), action \in {"grant", "revoke"} :
          ClientPermissions(2, id, action, Some(3))
    \/ \E u \in LoggedIn : ClientsList(u)
    \/ \E u \in LoggedIn, id \in 1..(Len(clients) + 1) : ClientDetail(u, id)
    \/ \E u \in LoggedIn : Dashboard(u)

ViewSpec == ViewInit /\ [][ViewNext]_vars

-----------------------------------------------------------------------------
(* Account analysis and validate_deal requests, served one at a time, on a *)
(* database of one client row that has or has not AI product revenue, a    *)
(* documented use case and delivery notes                                  *)

AnalyzeClients ==
    {[ClientDefaults EXCEPT
         !.name = "Analyzed",
         !.ai_product_revenue = ai,
         !.use_case_documented = documented,
         !.delivery_notes = notes,
         !.engagement_start_date = Some(-2000)] :
       ai \in {Some(0), Some(36000)}, documented \in BOOLEAN,
       notes \in {None, Some(<<>>), Some(<<"x">>)}}

AnalyzeInit ==
    /\ boot = "seed"
    /\ now = 0
    /\ users = <<>>
    /\ clients \in {<<c>> : c \in AnalyzeClients}
    /\ opps = <<>>
    /\ leads = <<>>
    /\ resp = NoResponse
    /\ sess = <<>>
    /\ perms = <<>>
    /\ flags = <<>>

AnalyzeNext ==
    \/ SeedIfEmpty
    \/ EnsureOpportunities
    \/ SeedUsersIfEmpty
    \/ SeedLeadsIfEmpty
    \/ \E op \in {"analyze_account", "validate_deal"} : AnonymousRequest(op)
    \/ \E u \in LoggedIn, id \in 1..(Len(clients) + 1),
          form_notes \in {None, Some(<<" ">>), Some(<<"x">>)},
          result \in AnalysisOutcomes :
          AnalyzeAccount(u, id, form_notes, result)
    \/ \E id \in 1..(Len(clients) + 1) : ValidateDealRoute(id)

AnalyzeSpec == AnalyzeInit /\ [][AnalyzeNext]_vars

-----------------------------------------------------------------------------
(* Every request that writes a client row or moves an opportunity, served  *)
(* one at a time, on a database that starts with one row of an older       *)
(* database; client_add is served while fewer than MaxEdited clients exist *)

MaxEdited == 2

EditMoves == {MoveTo(stage, Some(role)) :
                 stage \in {"proposal", "contract"}, role \in {"Sales", "Operations"}}

EditInit ==
    /\ boot = "seed"
    /\ now = 0
    /\ users = <<>>
    /\ clients = <<LegacyClient>>
    /\ opps = <<>>
    /\ leads = <<>>
    /\ resp = NoResponse
    /\ sess = <<>>
    /\ perms = <<>>
    /\ flags = <<>>

EditNext ==
    \/ SeedIfEmpty
    \/ EnsureOpportunities
    \/ SeedUsersIfEmpty
    \/ SeedLeadsIfEmpty
    \/ \E op \in {"client_add", "client_edit", "analyze_account", "move"} :
          AnonymousRequest(op)
    \/ \E u \in LoggedIn, form \in AddForms :
          Len(clients) < MaxEdited /\ ClientAdd(u, form)
    \/ \E u \in LoggedIn, id \in 1..(Len(clients) + 1), form \in EditForms :
          ClientEdit(u, id, form)
    \/ \E u \in LoggedIn, id \in 1..(Len(clients) + 1) :
          AnalyzeAccount(u, id, Some(<<"x">>), mock_analysis(<<>>))
    \/ \E id \in 1..(Len(opps) + 1), data \in EditMoves : ApiOpportunityMove(id, data)

EditSpec == EditInit /\ [][EditNext]_vars

-----------------------------------------------------------------------------
(* The pipeline state machine: claims C1 to C8 *)

\* the readiness score the quality gate reads for opportunity id
ScoreOf(id) == OrNum(clients[opps[id].client_id].ai_readiness_score, 0)

\* the canonical owner of a stage, as the specification states it
CanonicalOwner(stage) ==
    CASE stage \in {"qualified_lead", "discovery", "proposal"} -> "Sales"
      [] stage = "contract" -> "Operations"
      [] stage = "kickoff" -> "Delivery"
      [] OTHER -> "nobody"

FiveStages == {"qualified_lead", "discovery", "proposal", "contract", "kickoff"}

\* the quality gate stands in the way of moving opportunity id to stage t
GateBlocks(id, t) == opps[id].stage = "proposal" /\ t = "contract" /\ ScoreOf(id) < 50

\* C1: in every reachable state every opportunity is in one of the five
\* stages and its primary_owner is the canonical owner of that stage.
C1_OwnerMirrorsStage ==
    \A i \in 1..Len(opps) :
        /\ opps[i].stage \in FiveStages
        /\ opps[i].primary_owner = CanonicalOwner(opps[i].stage)

\* seeded, ensured, added and converted clients exist next to opportunities
\* moved into contract and into kickoff
C1_Witness ==
    /\ resp.op = "move" /\ resp.status = 200
    /\ \E i \in 1..Len(opps) : opps[i].stage = "contract" /\ opps[i].primary_owner = "Operations"
    /\ \E i \in 1..Len(opps) : opps[i].stage = "kickoff" /\ opps[i].primary_owner = "Delivery"
    /\ \E i \in 1..Len(leads) : leads[i].converted_to_client_id = Some(Len(clients))

\* C2: a move proposal -> contract is answered 400 with the quality-gate
\* error carrying threshold 50 and the current score whenever the client's
\* readiness (null as 0) is below 50, whatever user_role is; and with a
\* readiness of 50 or more the answer is never the quality-gate error.
C2_QualityGate ==
    \A id \in 1..Len(opps), role \in RoleInputs :
        opps[id].stage = "proposal"
        => ~ENABLED ( /\ ApiOpportunityMove(id, MoveTo("contract", role))
                      /\ ~(IF ScoreOf(id) < 50
                           THEN /\ resp'.status = 400
                                /\ resp'.error = "Quality Gate"
                                /\ resp'.threshold = 50
                                /\ resp'.score = ScoreOf(id)
                           ELSE resp'.error # "Quality Gate") )

\* the gate has rejected a move of an opportunity whose client scores 49,
\* and lets the opportunity of a client that scores 50 through
C2_Witness ==
    /\ resp.op = "move" /\ resp.status = 400 /\ resp.error = "Quality Gate"
    /\ resp.score = 49 /\ resp.threshold = 50
    /\ \E i \in 1..Len(opps) : opps[i].stage = "proposal" /\ ScoreOf(i) = 49
    /\ \E i \in 1..Len(opps) :
          /\ opps[i].stage = "proposal" /\ ScoreOf(i) = 50
          /\ ENABLED (ApiOpportunityMove(i, MoveTo("contract", Some("Operations")))
                      /\ resp'.status = 200)

\* C3: stage membership is checked first, then the quality gate, then the
\* authority gate: proposal -> contract with readiness below 50 and a role
\* other than Operations is answered with the quality-gate error (400), not
\* the authority error (403); an unknown target is answered with the
\* invalid-stage error whatever the role and the readiness.
C3_GateOrder ==
    \A id \in 1..Len(opps), role \in RoleInputs :
        /\ (opps[id].stage = "proposal" /\ ScoreOf(id) < 50 /\ Get(role, "Sales") # "Operations")
           => ~ENABLED ( /\ ApiOpportunityMove(id, MoveTo("contract", role))
                         /\ ~(resp'.status = 400 /\ resp'.error = "Quality Gate") )
        /\ ~ENABLED ( /\ ApiOpportunityMove(id, MoveTo("closed_won", role))
                      /\ ~(resp'.status = 400 /\ resp'.error = "Invalid stage") )

\* a quality-gate rejection has been served in a state where the same
\* request made as Sales is answered 400 too
C3_Witness ==
    /\ resp.op = "move" /\ resp.error = "Quality Gate"
    /\ \E i \in 1..Len(opps) :
          /\ opps[i].stage = "proposal" /\ ScoreOf(i) < 50
          /\ ENABLED (ApiOpportunityMove(i, MoveTo("contract", Some("Sales")))
                      /\ resp'.status = 400)

\* C4: a move to a valid target that the quality gate does not block is
\* answered 403 with the authority error naming the required owner whenever
\* user_role differs from the canonical owner of the target; a request
\* without user_role is served as the same request with user_role Sales.
C4_AuthorityGate ==
    \A id \in 1..Len(opps), t \in FiveStages :
        /\ \A role \in RoleInputs :
              (~GateBlocks(id, t) /\ Get(role, "Sales") # CanonicalOwner(t))
              => ~ENABLED ( /\ ApiOpportunityMove(id, MoveTo(t, role))
                            /\ ~( /\ resp'.status = 403
                                  /\ resp'.error = "Decision Authority required"
                                  /\ resp'.required_owner = CanonicalOwner(t) ) )
        /\ ~ENABLED ( /\ ApiOpportunityMove(id, MoveTo(t, None))
                      /\ ~ApiOpportunityMove(id, MoveTo(t, Some("Sales"))) )

\* the authority gate has rejected a move to contract, and a request to
\* kickoff without user_role would be rejected naming Delivery
C4_Witness ==
    /\ resp.op = "move" /\ resp.status = 403 /\ resp.required_owner = "Operations"
    /\ \E i \in 1..Len(opps) :
          ENABLED (ApiOpportunityMove(i, MoveTo("kickoff", None))
                   /\ resp'.status = 403 /\ resp'.required_owner = "Delivery")

\* C5: a move that passes the three gates sets the opportunity's stage to
\* the target and its primary_owner to the canonical owner of the target,
\* whatever the owner was, and changes nothing else of the opportunities.
C5_MoveSucceeds ==
    \A id \in 1..Len(opps), t \in FiveStages, role \in RoleInputs :
        (~GateBlocks(id, t) /\ Get(role, "Sales") = CanonicalOwner(t))
        => ~ENABLED ( /\ ApiOpportunityMove(id, MoveTo(t, role))
                      /\ ~( /\ resp'.status = 200 /\ resp'.ok /\ resp'.stage = t
                            /\ opps' = [opps EXCEPT ![id] =
                                          [client_id |-> opps[id].client_id,
                                           stage |-> t,
                                           primary_owner |-> CanonicalOwner(t)]] ) )

\* an opportunity owned by Sales has just been moved into proposal, its
\* client's readiness is 50, and the move to contract by Operations
\* succeeds and makes Operations its owner
C5_Witness ==
    /\ resp.op = "move" /\ resp.status = 200 /\ resp.stage = "proposal"
    /\ \E i \in 1..Len(opps) :
          /\ opps[i].stage = "proposal" /\ opps[i].primary_owner = "Sales"
          /\ ScoreOf(i) = 50
          /\ ENABLED (ApiOpportunityMove(i, MoveTo("contract", Some("Operations")))
                      /\ resp'.status = 200
                      /\ opps'[i].stage = "contract"
                      /\ opps'[i].primary_owner = "Operations")

\* C6: a move whose target is not one of the five stages, or whose stage
\* field is missing, is answered 400 with the invalid-stage error, for every
\* current stage, role and readiness.
C6_InvalidStage ==
    \A id \in 1..Len(opps), role \in RoleInputs,
       st \in StageInputs \ {Some(t) : t \in FiveStages} :
        ~ENABLED ( /\ ApiOpportunityMove(id, [stage |-> st, user_role |-> role])
                   /\ ~(resp'.status = 400 /\ resp'.error = "Invalid stage" /\ ~resp'.ok) )

\* the invalid-stage error has been served for an opportunity in contract
\* whose owner could otherwise move it
C6_Witness ==
    /\ resp.op = "move" /\ resp.status = 400 /\ resp.error = "Invalid stage"
    /\ \E i \in 1..Len(opps) :
          /\ opps[i].stage = "contract"
          /\ ENABLED (ApiOpportunityMove(i, [stage |-> None, user_role |-> Some("Operations")])
                      /\ resp'.error = "Invalid stage")

\* C7: a move request that is rejected (invalid stage, quality gate,
\* authority) leaves every opportunity and every client as it was.
C7_RejectedMoveChangesNothing ==
    [][(resp'.op = "move" /\ resp'.status \in {400, 403})
       => (opps' = opps /\ clients' = clients)]_vars

\* a rejection has been served after opportunities were moved, in a state
\* where the quality gate rejects too
C7_Witness ==
    /\ resp.op = "move" /\ resp.status = 403
    /\ \E i \in 1..Len(opps) : opps[i].stage = "kickoff"
    /\ \E i \in 1..Len(opps) :
          /\ GateBlocks(i, "contract")
          /\ ENABLED (ApiOpportunityMove(i, MoveTo("contract", Some("Operations")))
                      /\ resp'.status = 400 /\ opps' = opps)

\* C8: adjacency is not enforced: from every stage s to every stage t other
\* than proposal -> contract, the move by the canonical owner of t succeeds
\* whatever the client's readiness is (backward, self and skipping moves
\* included), once the application serves requests.
C8_NoAdjacency ==
    \A id \in 1..Len(opps), t \in FiveStages :
        (boot = "ready" /\ ~(opps[id].stage = "proposal" /\ t = "contract"))
        => /\ ENABLED ApiOpportunityMove(id, MoveTo(t, Some(CanonicalOwner(t))))
           /\ ~ENABLED ( /\ ApiOpportunityMove(id, MoveTo(t, Some(CanonicalOwner(t))))
                         /\ ~(resp'.status = 200 /\ opps'[id].stage = t) )

\* an opportunity whose client's readiness is below 50 has been moved into
\* contract, can be moved on to kickoff, back to qualified_lead, and onto
\* itself
C8_Witness ==
    /\ resp.op = "move" /\ resp.status = 200 /\ resp.stage = "contract"
    /\ \E i \in 1..Len(opps) :
          /\ opps[i].stage = "contract" /\ ScoreOf(i) < 50
          /\ ENABLED (ApiOpportunityMove(i, MoveTo("kickoff", Some("Delivery")))
                      /\ opps'[i].stage = "kickoff")
          /\ ENABLED (ApiOpportunityMove(i, MoveTo("qualified_lead", Some("Sales")))
                      /\ opps'[i].stage = "qualified_lead")
          /\ ENABLED (ApiOpportunityMove(i, MoveTo("contract", Some("Operations")))
                      /\ resp'.status = 200 /\ opps' = opps)

\* C9: under every interleaving of concurrent move requests on one
\* opportunity, its primary_owner is the canonical owner of its stage: no
\* state combines the stage written by one request with the owner written
\* by another.
C9_NoTornUpdate ==
    \A i \in 1..Len(opps) : opps[i].primary_owner = CanonicalOwner(opps[i].stage)

-----------------------------------------------------------------------------
(* The guardrail engine: claim C10 *)

\* the string has a character that is not whitespace
NonBlank(so) == so # None /\ \E i \in 1..Len(so[1]) : so[1][i] # " "

\* C10: validate_deal reports the rule-1 message exactly when legacy_systems
\* is non-empty after trimming and data_foundation_service_active is false,
\* whatever the other fields of the client and its opportunities are.
C10_Rule1 ==
    (resp.op = "validate_deal" /\ resp.status = 200)
    => ( (\E i \in 1..Len(resp.warnings) :
             resp.warnings[i] = "Services engagement required before AI Product adoption. Legacy systems detected but no Data Foundation Service active.")
         <=> (NonBlank(clients[1].legacy_systems)
              /\ ~clients[1].data_foundation_service_active) )

\* the message has been reported for a client whose legacy_systems has
\* whitespace around its text, and that has AI revenue and a signed contract
C10_Witness ==
    /\ resp.op = "validate_deal" /\ resp.status = 200
    /\ Has(resp.warnings, MsgServicesFirst)
    /\ clients[1].legacy_systems = Some(<<" ", "x">>)
    /\ clients[1].ai_product_revenue = Some(60000)
    /\ opps[1].stage = "contract"

-----------------------------------------------------------------------------
(* The guardrail engine: claims C11 to C15 *)

\* the nine messages in the order of their rules
RuleOrder ==
    <<MsgServicesFirst, MsgDataAudit, MsgSixMonths, MsgUseCase, MsgCapacity,
      MsgPilot, MsgHandoff, MsgTrust, MsgNewRelationship>>

RuleIndex(m) == CHOOSE k \in 1..Len(RuleOrder) : RuleOrder[k] = m

\* a validate_deal answer has been served for the one client of the snapshot
Validated == resp.op = "validate_deal" /\ resp.status = 200

\* the AI product revenue of a client, null as 0
AiRev(c) == IF c.ai_product_revenue = None THEN 0 ELSE c.ai_product_revenue[1]

\* the start date of a client: engagement_start_date, else created_at
StartOf(c) ==
    IF c.engagement_start_date # None THEN c.engagement_start_date ELSE c.created_at

\* whole days elapsed at time t since the date d (set)
Elapsed(d, t) == (t - d[1]) \div 10

\* a client that fires rules 1 and 2 and none of rules 3 to 6 and 9, whose
\* trust level is not null
FiresOneAndTwoOnly(c, t) ==
    /\ NonBlank(c.legacy_systems) /\ ~c.data_foundation_service_active
    /\ AiRev(c) > 0
    /\ c.trust_level # None
    /\ (StartOf(c) = None \/ Elapsed(StartOf(c), t) >= 180)
    /\ c.use_case_documented /\ c.delivery_capacity_confirmed
    /\ (AiRev(c) <= 50000 \/ c.prior_pilot_success)

\* one of the client's opportunities is in contract or kickoff and the
\* checklist is not complete
HandoffDue(cid) ==
    /\ \E i \in 1..Len(opps) :
          opps[i].client_id = cid /\ opps[i].stage \in {"contract", "kickoff"}
    /\ ~clients[cid].handoff_checklist_complete

\* C11: the list validate_deal returns has no duplicate, holds only rule
\* messages, and lists them in ascending rule order; ok is true exactly when
\* the list is empty; a client that fires exactly rules 1, 2 and the trust
\* rule (trust from 1 to 49) gets exactly these three messages in this
\* order, and one that fires exactly rules 1, 2 and the handoff rule gets
\* exactly those three.
C11_OrderedDeduped ==
    Validated
    => LET w == resp.warnings
           c == clients[1]
       IN /\ \A i \in 1..Len(w) : \E k \in 1..Len(RuleOrder) : RuleOrder[k] = w[i]
          /\ \A i, j \in 1..Len(w) : i < j => RuleIndex(w[i]) < RuleIndex(w[j])
          /\ resp.ok <=> (w = <<>>)
          /\ (FiresOneAndTwoOnly(c, now) /\ c.trust_level[1] \in 1..49 /\ ~HandoffDue(1))
             => w = <<MsgServicesFirst, MsgDataAudit, MsgTrust>>
          /\ (FiresOneAndTwoOnly(c, now) /\ c.trust_level[1] >= 50 /\ HandoffDue(1))
             => w = <<MsgServicesFirst, MsgDataAudit, MsgHandoff>>

\* the three messages of rules 1, 2 and the trust rule have been returned,
\* in this order, for a client of trust 49 with a start date 180 days old
C11_Witness ==
    /\ Validated
    /\ resp.warnings = <<MsgServicesFirst, MsgDataAudit, MsgTrust>>
    /\ ~resp.ok
    /\ clients[1].trust_level = Some(49)
    /\ clients[1].engagement_start_date = Some(0 - 1800)

\* C12: for a client whose trust_level is an integer from 0 to 100,
\* validate_deal reports the trust-preservation message exactly when
\* trust_level < 50 and ai_product_revenue > 0, trust_level 0 included.
C12_TrustRule ==
    (Validated /\ clients[1].trust_level # None)
    => ( Has(resp.warnings, MsgTrust)
         <=> (clients[1].trust_level[1] < 50 /\ AiRev(clients[1]) > 0) )

\* C13: validate_deal reports the rule-3 message exactly when
\* ai_product_revenue > 0, a start date exists (engagement_start_date, else
\* created_at) and the whole days elapsed since it, divided by 30, are
\* under 6; with both dates absent the rule does not fire, and a set
\* engagement_start_date decides whatever created_at is.
C13_SixMonths ==
    Validated
    => LET c == clients[1]
           fired == Has(resp.warnings, MsgSixMonths)
       IN /\ fired <=> ( /\ AiRev(c) > 0
                         /\ StartOf(c) # None
                         /\ Elapsed(StartOf(c), now) < 6 * 30 )
          /\ (c.engagement_start_date = None /\ c.created_at = None) => ~fired
          /\ c.engagement_start_date # None
             => (fired <=> ( /\ AiRev(c) > 0
                             /\ Elapsed(c.engagement_start_date, now) < 6 * 30 ))

\* the message has been reported for a client engaged for 179 whole days
\* whose row was created 180 days ago
C13_Witness ==
    /\ Validated
    /\ Has(resp.warnings, MsgSixMonths)
    /\ clients[1].engagement_start_date = Some(0 - 1799)
    /\ clients[1].created_at = Some(0 - 1800)

\* C14: validate_deal reports the rule-6 message exactly when
\* ai_product_revenue > 50000, prior_pilot_success is false and
\* data_foundation_service_active is false; a client with AI revenue 60000,
\* no prior pilot, no data foundation service and legacy_systems "ERP" gets
\* ok = false with the rule-1 and the rule-6 message.
C14_PilotRule ==
    Validated
    => LET c == clients[1]
       IN /\ Has(resp.warnings, MsgPilot)
             <=> ( /\ AiRev(c) > 50000
                   /\ ~c.prior_pilot_success
                   /\ ~c.data_foundation_service_active )
          /\ ( /\ c.ai_product_revenue = Some(60000)
               /\ ~c.prior_pilot_success
               /\ ~c.data_foundation_service_active
               /\ c.legacy_systems = Some(<<"E", "R", "P">>) )
             => ( /\ ~resp.ok
                  /\ Has(resp.warnings, MsgServicesFirst)
                  /\ Has(resp.warnings, MsgPilot) )

\* the scenario has been validated: both messages are in the answer, and
\* the client is past every date rule and has its use case documented
C14_Witness ==
    /\ Validated
    /\ ~resp.ok
    /\ Has(resp.warnings, MsgServicesFirst) /\ Has(resp.warnings, MsgPilot)
    /\ clients[1].ai_product_revenue = Some(60000)
    /\ clients[1].legacy_systems = Some(<<"E", "R", "P">>)
    /\ clients[1].use_case_documented
    /\ ~Has(resp.warnings, MsgSixMonths)

\* C15: in every state reached by moves, validate_deal for a client reports
\* the handoff message exactly when one of the client's opportunities is in
\* contract or kickoff and handoff_checklist_complete is false; a move of
\* the client's last such opportunity to a stage owned by Sales leaves a
\* state where the message is not due; and a move into contract or kickoff
\* that passes the quality and authority gates succeeds whatever the
\* checklist is.
C15_HandoffRule ==
    /\ [][\A cid \in 1..Len(clients) :
            ValidateDealRoute(cid)
            => ( /\ resp'.status = 200
                 /\ Has(resp'.warnings, MsgHandoff) <=> HandoffDue(cid) )]_vars
    /\ [](\A id \in 1..Len(opps), t \in {"qualified_lead", "discovery", "proposal"} :
            (\A j \in 1..Len(opps) :
                (j # id /\ opps[j].client_id = opps[id].client_id)
                => opps[j].stage \notin {"contract", "kickoff"})
            => ~ENABLED ( /\ ApiOpportunityMove(id, MoveTo(t, Some("Sales")))
                          /\ ~(resp'.status = 200 /\ ~HandoffDue(opps[id].client_id)') ))
    /\ [](\A id \in 1..Len(opps), t \in {"contract", "kickoff"} :
            ~GateBlocks(id, t)
            => ~ENABLED ( /\ ApiOpportunityMove(id, MoveTo(t, Some(CanonicalOwner(t))))
                          /\ ~(resp'.status = 200 /\ opps'[id].stage = t) ))

\* the handoff message has been reported for the first client, whose
\* opportunity was moved into kickoff with the checklist incomplete; moving
\* it back to discovery leaves a state where the message is not due
C15_Witness ==
    /\ Validated
    /\ Has(resp.warnings, MsgHandoff)
    /\ Len(clients) = 3
    /\ opps[1].client_id = 1 /\ opps[1].stage = "kickoff"
    /\ ~clients[1].handoff_checklist_complete
    /\ \A j \in 2..Len(opps) : opps[j].stage \notin {"contract", "kickoff"}
    /\ ENABLED ( /\ ApiOpportunityMove(1, MoveTo("discovery", Some("Sales")))
                 /\ resp'.status = 200
                 /\ ~HandoffDue(1)' )

-----------------------------------------------------------------------------
(* Confidential access: claims C16 to C19 *)

\* a permission row exists for (user u, client cid)
Granted(u, cid) ==
    \E row \in DOMAIN perms : row.user_id = u /\ row.client_id = cid /\ perms[row] >= 1

\* C16: can_view_confidential is false for the unauthenticated user; the
\* client page of an authenticated user is rendered with the flag true if
\* the user's role is ceo or strategy_lead, whatever the grants are, and
\* otherwise exactly when a permission row exists for that user and that
\* client (a row for another client does not count).
C16_CanViewConfidential ==
    boot = "ready"
    => \A cid \in 1..Len(clients) :
          /\ ~can_view_confidential(0, cid)
          /\ \A u \in LoggedIn :
                ~ENABLED ( /\ ClientDetail(u, cid)
                           /\ ~( /\ resp'.status = 200
                                 /\ resp'.can_view_confidential
                                    <=> ( \/ users[u].role \in {"ceo", "strategy_lead"}
                                          \/ Granted(u, cid) ) ) )

\* the employee holds a grant for the first client alone: a page has been
\* rendered with the flag false, and the page of the first client would be
\* rendered with the flag true
C16_Witness ==
    /\ resp.op = "client_detail" /\ resp.status = 200 /\ ~resp.can_view_confidential
    /\ Granted(3, 1) /\ ~Granted(3, 2)
    /\ users[3].role = "employee"
    /\ ENABLED (ClientDetail(3, 1) /\ resp'.can_view_confidential)
    /\ ENABLED (ClientDetail(3, 2) /\ ~resp'.can_view_confidential)

\* the users and clients a permission row may name
PermPairs == {<<uid, cid>> : uid \in {2, 3}, cid \in 1..Len(clients)}

\* the users allowed to manage permissions
Granters == {g \in LoggedIn : users[g].role \in {"ceo", "strategy_lead"}}

\* C17: with grant and revoke requests served one at a time, every (user,
\* client) pair has 0 or 1 permission row; granting a granted pair changes
\* nothing, granting an ungranted pair leaves exactly one row, revoking
\* leaves the pair without a row and the other pairs as they were, and
\* revoking an ungranted pair changes nothing and is answered as a
\* successful request (the redirect, no error).
C17_GrantRevokeIdempotent ==
    /\ \A row \in DOMAIN perms : RowCount(perms, row.user_id, row.client_id) = 1
    /\ boot = "ready"
       => \A g \in Granters, p \in PermPairs :
             LET uid == p[1]
                 cid == p[2]
             IN /\ ~ENABLED ( /\ ClientPermissions(g, cid, "grant", Some(uid))
                              /\ ~( /\ resp'.status = 302 /\ resp'.error = ""
                                    /\ RowCount(perms', uid, cid) = 1
                                    /\ Granted(uid, cid) => perms' = perms ) )
                /\ ~ENABLED ( /\ ClientPermissions(g, cid, "revoke", Some(uid))
                              /\ ~( /\ resp'.status = 302 /\ resp'.error = ""
                                    /\ RowCount(perms', uid, cid) = 0
                                    /\ \A q \in PermPairs \ {p} :
                                          RowCount(perms', q[1], q[2])
                                             = RowCount(perms, q[1], q[2])
                                    /\ ~Granted(uid, cid) => perms' = perms ) )

\* the employee has been granted the first client: granting again changes
\* nothing, and revoking the second client, never granted, changes nothing
C17_Witness ==
    /\ resp.op = "client_permissions" /\ resp.status = 302 /\ resp.error = ""
    /\ RowCount(perms, 3, 1) = 1 /\ RowCount(perms, 3, 2) = 0
    /\ ENABLED (ClientPermissions(1, 1, "grant", Some(3)) /\ perms' = perms)
    /\ ENABLED (ClientPermissions(1, 2, "revoke", Some(3))
                 /\ perms' = perms /\ resp'.status = 302)
    /\ ENABLED (ClientPermissions(1, 1, "revoke", Some(3))
                 /\ RowCount(perms', 3, 1) = 0)

\* C18: at most one permission row exists for every (user, client) pair in
\* every reachable state, the states reached by grant requests for one
\* pair that interleave between the existence check and the insert
\* included.
C18_AtMostOneRow ==
    \A row \in DOMAIN perms : RowCount(perms, row.user_id, row.client_id) <= 1

\* C19: can_grant_permissions holds exactly for the authenticated users of
\* role ceo or strategy_lead; a permissions request of an employee, with
\* any action and user_id, and a request of an unauthenticated user leave
\* the permission rows as they were; and every step that changes the
\* permission rows is a permissions request that was let through.
C19_OnlyGrantersChangePermissions ==
    /\ [](\A u \in 0..Len(users) :
            can_grant_permissions(u)
            <=> (u > 0 /\ users[u].role \in {"ceo", "strategy_lead"}))
    /\ [](\A u \in LoggedIn \ Granters, id \in 1..(Len(clients) + 1),
             action \in PermActions, user_id \in PermUserIds :
            ~ENABLED (ClientPermissions(u, id, action, user_id) /\ perms' # perms))
    /\ [](~ENABLED (AnonymousRequest("client_permissions") /\ perms' # perms))
    /\ [][perms' # perms
           => ( /\ resp'.op = "client_permissions"
                /\ resp'.status = 302
                /\ resp'.error = ""
                /\ \E g \in Granters, id \in 1..Len(clients),
                      action \in PermActions, user_id \in PermUserIds :
                      ClientPermissions(g, id, action, user_id) )]_vars

\* the employee, who holds a grant for the first client, has been refused,
\* and the employee's request to revoke that grant would change nothing
C19_Witness ==
    /\ resp.op = "client_permissions" /\ resp.error = MsgManagePermissions
    /\ Granted(3, 1)
    /\ users[3].role = "employee"
    /\ ENABLED (ClientPermissions(3, 1, "revoke", Some(3)) /\ perms' = perms)
    /\ ENABLED (ClientPermissions(2, 1, "revoke", Some(3)) /\ perms' # perms)

-----------------------------------------------------------------------------
(* Lead conversion: claim C20 *)

\* the link of lead i is set
Linked(i) == leads[i].converted_to_client_id # None

\* C20: over lead_add, lead_edit and lead_convert requests, no lead is
\* removed and a link that is set keeps its value in every step; a convert
\* request on a linked lead changes no client, opportunity or lead; and a
\* step that sets the link of a lead sets it to the one client it appends,
\* and appends one opportunity of that client in qualified_lead owned by
\* Sales, the other leads keeping their links.
C20_LinkSetOnce ==
    /\ [][/\ Len(leads') >= Len(leads)
          /\ \A i \in 1..Len(leads) :
                Linked(i)
                => leads'[i].converted_to_client_id = leads[i].converted_to_client_id]_vars
    /\ [](\A u \in LoggedIn, i \in 1..Len(leads) :
            Linked(i)
            => ~ENABLED ( /\ LeadConvert(u, i)
                          /\ ~(clients' = clients /\ opps' = opps /\ leads' = leads) ))
    /\ [][\A i \in 1..Len(leads) :
            (~Linked(i) /\ leads'[i].converted_to_client_id # None)
            => ( /\ resp'.op = "lead_convert"
                 /\ Len(clients') = Len(clients) + 1
                 /\ SubSeq(clients', 1, Len(clients)) = clients
                 /\ leads'[i].converted_to_client_id = Some(Len(clients'))
                 /\ opps' = Append(opps, [client_id |-> Len(clients'),
                                          stage |-> "qualified_lead",
                                          primary_owner |-> "Sales"])
                 /\ \A j \in 1..Len(leads) \ {i} :
                       leads'[j].converted_to_client_id
                          = leads[j].converted_to_client_id )]_vars
    /\ [][(Len(clients') # Len(clients) /\ boot = "ready")
          => \E i \in 1..Len(leads) : ~Linked(i) /\ leads'[i].converted_to_client_id # None]_vars

\* a second convert request on a converted lead has been answered, the lead
\* added by lead_add is linked to the client its conversion created, it was
\* edited to status lost afterwards, and the link is still there
C20_Witness ==
    /\ resp.op = "lead_convert" /\ resp.error = "Lead already converted."
    /\ Len(leads) = 2
    /\ Linked(2)
    /\ leads[2].status = "lost"
    /\ clients[leads[2].converted_to_client_id[1]].name = <<"x">>
    /\ \E k \in 1..Len(opps) :
          opps[k].client_id = leads[2].converted_to_client_id[1]

-----------------------------------------------------------------------------
(* Risk flags: claim C21 *)

\* C21: a risk flag is created unacknowledged; no flag is ever removed or
\* rewritten; a flag becomes acknowledged only in a step that is an
\* acknowledge request on that very flag; an acknowledged flag stays
\* acknowledged; and an acknowledge request on a flag that is already
\* acknowledged leaves the table as it was.
C21_AcknowledgedMonotone ==
    [][ /\ Len(flags') >= Len(flags)
        /\ \A i \in 1..Len(flags') :
              i > Len(flags) => ~flags'[i].acknowledged
        /\ \A i \in 1..Len(flags) :
              /\ flags[i].acknowledged => flags'[i] = flags[i]
              /\ ~flags[i].acknowledged /\ flags'[i].acknowledged
                    => \E u \in LoggedIn : ApiAcknowledge(u, i)
              /\ \A u \in LoggedIn :
                    ApiAcknowledge(u, i) /\ flags[i].acknowledged
                       => flags' = flags
      ]_vars

\* a flag of client 1 was acknowledged, a later flag is still open, and the
\* last request served was another acknowledgement
C21_Witness ==
    /\ Len(flags) = 2
    /\ flags[1].acknowledged
    /\ ~flags[2].acknowledged
    /\ resp.op = "api_acknowledge"
    /\ resp.status = 200

-----------------------------------------------------------------------------
(* Every client has a pipeline entry: claim C22 *)

\* the opportunities a step adds to the table
Added == (Len(opps) + 1)..Len(opps')

-----------------------------------------------------------------------------
(* The scores: claims C23 to C26 *)

\* the value of calculate_priority_score for the columns of client 1, with
\* some of them replaced
ScoreWith(rev, readiness, last) ==
    calculate_priority_score(rev, readiness, last, now)

\* the inputs claim C23 speaks of
ValidRevenue == {r \in GridRevenue : r # None /\ r[1] >= 0}
ValidReadiness == {r \in GridReadiness : r # None /\ r[1] \in 0..100}
ValidUpdate == GridUpdate \ {None}

\* C23: when the score of client 1 is returned for a revenue >= 0, a
\* readiness in 0..100 and an update date, it is not above the score of any
\* larger revenue, not above the score of any larger readiness, not below
\* the score of any older update date (more days since the update), and it
\* is 0 when the revenue or the readiness is 0.
C23_Monotone ==
    resp.op = "calculate_priority_score" =>
       LET rev == clients[1].revenue
           readiness == clients[1].ai_readiness_score
           last == clients[1].last_delivery_update
           score == resp.priority
       IN (rev \in ValidRevenue /\ readiness \in ValidReadiness
              /\ last \in ValidUpdate)
          => /\ \A r \in ValidRevenue :
                  r[1] >= rev[1] => ScoreWith(r, readiness, last) >= score
             /\ \A r \in ValidReadiness :
                  r[1] >= readiness[1] => ScoreWith(rev, r, last) >= score
             /\ \A d \in ValidUpdate :
                  d[1] <= last[1] => ScoreWith(rev, readiness, d) <= score
             /\ (rev[1] = 0 \/ readiness[1] = 0) => score = 0

\* the score of a client with revenue 7 and readiness 50 updated 7 days ago
\* was returned: 7 * 50 / 7 = 50.00
C23_Witness ==
    /\ resp.op = "calculate_priority_score"
    /\ clients[1].revenue = Some(7)
    /\ clients[1].ai_readiness_score = Some(50)
    /\ clients[1].last_delivery_update = Some(-70)
    /\ resp.priority = 5000

Abs(n) == IF n >= 0 THEN n ELSE -n

OpenFlags(cid) ==
    Len(SelectSeq(flags, LAMBDA f : f.client_id = cid /\ ~f.acknowledged))

\* the age of the last delivery update of a row, in whole weeks; a missing
\* date and a date not in the past have age 0
UpdateWeeks(c) ==
    IF c.last_delivery_update = None THEN 0
    ELSE IF c.last_delivery_update[1] >= now THEN 0
    ELSE (now - c.last_delivery_update[1]) \div (7 * Day)

Clamp(x, lo, hi) == IF x < lo THEN lo ELSE IF x > hi THEN hi ELSE x

\* C25: every row of the client-health page carries the health score
\* clamp(readiness - 10 * open risk flags - whole weeks since the update,
\* 0, 100), a null readiness counting as 0, and the score lies in 0..100.
C25_HealthScore ==
    (resp.op = "client_health" /\ resp.status = 200) =>
       /\ Len(resp.rows) = Len(clients)
       /\ \A i \in 1..Len(resp.rows) :
             LET row == resp.rows[i]
                 c == clients[row.client]
             IN /\ row.health_score =
                      Clamp(Get(c.ai_readiness_score, 0) - 10 * OpenFlags(row.client)
                               - UpdateWeeks(c), 0, 100)
                /\ row.health_score \in 0..100

\* the page shows 50 - 10 * 2 - 1 = 29 for a client of readiness 50 with two
\* open flags, updated 7 days ago
C25_Witness ==
    /\ resp.op = "client_health"
    /\ clients[1].ai_readiness_score = Some(50)
    /\ clients[1].last_delivery_update = Some(-70)
    /\ OpenFlags(1) = 2
    /\ \E i \in 1..Len(resp.rows) :
          resp.rows[i].client = 1 /\ resp.rows[i].health_score = 29

\* the clients that count towards the revenue velocity as claim C26 has it:
\* a revenue above 0 and an update date before now
Counted(cs, t) ==
    {i \in 1..Len(cs) : /\ Get(cs[i].revenue, 0) > 0
                        /\ cs[i].last_delivery_update # None
                        /\ t - cs[i].last_delivery_update[1] > 0}

\* the sum of revenue / days over the clients in the set ids, as a fraction
RECURSIVE SumOver(_, _, _)
SumOver(cs, ids, t) ==
    IF ids = {} THEN Frac(0, 1)
    ELSE LET i == CHOOSE x \in ids : TRUE
             rest == SumOver(cs, ids \ {i}, t)
             days == t - cs[i].last_delivery_update[1]
         IN Frac(rest.num * days + cs[i].revenue[1] * Day * rest.den,
                 rest.den * days)

\* C26: the revenue velocity a user with full access is shown is the sum of
\* revenue / days since the update over exactly the clients with a revenue
\* above 0 and an update date before now; any other client (revenue zero,
\* negative or null; update date missing, equal to now or after now) adds
\* nothing.
C26_RevenueVelocity ==
    (resp.op = "dashboard" /\ resp.status = 200 /\ resp.can_view_confidential)
       => LET total == SumOver(clients, Counted(clients, now), now)
          IN resp.revenue_velocity = Round2(total.num, total.den)

-----------------------------------------------------------------------------
(* The guardrail engine: claim C27 *)

\* C27: a validate_deal answer that carries the rule-2 message (AI product
\* proposed without data audit) carries the rule-1 message, and one that
\* carries the "< 90 days" message carries the "< 6 months engagement"
\* message.
C27_ImpliedMessages ==
    (resp.op = "validate_deal" /\ resp.status = 200) =>
       /\ Has(resp.warnings, MsgDataAudit) => Has(resp.warnings, MsgServicesFirst)
       /\ Has(resp.warnings, MsgNewRelationship) => Has(resp.warnings, MsgSixMonths)

\* an answer with all four messages
C27_Witness ==
    /\ resp.op = "validate_deal"
    /\ resp.status = 200
    /\ Has(resp.warnings, MsgDataAudit)
    /\ Has(resp.warnings, MsgServicesFirst)
    /\ Has(resp.warnings, MsgNewRelationship)
    /\ Has(resp.warnings, MsgSixMonths)

-----------------------------------------------------------------------------
(* Confidential revenue: claim C28 *)

\* the client tables that differ from cs in nothing but the three revenue
\* columns of client k
RevenueVariants(cs, k) ==
    {[cs EXCEPT ![k].revenue = rev, ![k].services_revenue = svc,
                ![k].ai_product_revenue = ai] :
       rev \in ViewAmounts, svc \in ViewAmounts, ai \in ViewAmounts}

LowAiBuckets == {"high_trust_low_ai", "low_trust_low_ai"}

\* the score of the pages for the row c with no revenue
ZeroRevenueScore(c) ==
    calculate_priority_score(Some(0), c.ai_readiness_score,
                             c.last_delivery_update, now)

-----------------------------------------------------------------------------
(* Account analysis: claim C29 *)

\* client cid went through a completed analyze_account POST
\* (analysis_updated_at is written by nothing else)
Analyzed(cid) == clients[cid].analysis_updated_at # None

\* the stored ai_use_cases of client cid is the JSON text of a non-empty
\* list
HasUseCases(cid) ==
    /\ clients[cid].ai_use_cases # None
    /\ Len(clients[cid].ai_use_cases[1]) > 2
    /\ Head(clients[cid].ai_use_cases[1]) = "["

\* C29: once an analyze_account POST on a client has completed, the
\* client's stored ai_use_cases is a non-empty list and validate_deal does
\* not report the rule-4 message for that client, whatever
\* use_case_documented and ai_product_revenue are.
C29_AnalysisDocumentsUseCase ==
    \A cid \in 1..Len(clients) :
       Analyzed(cid) =>
          /\ HasUseCases(cid)
          /\ ~Has(validate_deal(clients[cid], StagesOf(opps, cid), now).warnings,
                  MsgUseCase)

-----------------------------------------------------------------------------
(* Client rows after creation: claim C30 *)

\* the columns of a client row that validate_deal and the quality gate read
GuardrailInputs(c) ==
    <<c.legacy_systems, c.data_foundation_service_active, c.ai_product_revenue,
      c.engagement_start_date, c.created_at, c.use_case_documented,
      c.ai_use_cases, c.delivery_capacity_confirmed, c.prior_pilot_success,
      c.handoff_checklist_complete, c.trust_level, c.ai_readiness_score>>

\* the same columns without ai_use_cases, and the other revenue columns and
\* readiness flags
FrozenInputs(c) ==
    <<c.legacy_systems, c.data_foundation_service_active, c.ai_product_revenue,
      c.engagement_start_date, c.created_at, c.use_case_documented,
      c.delivery_capacity_confirmed, c.prior_pilot_success,
      c.handoff_checklist_complete, c.trust_level, c.ai_readiness_score,
      c.revenue, c.services_revenue, c.budget_confirmed>>

\* a client row with its three assignment columns blanked
WithoutAssignment(c) ==
    [c EXCEPT !.assigned_to_id = None, !.approver_id = None,
              !.ai_feature_request = None]

\* C30 as stated: no request changes, in an existing client row, a column
\* that validate_deal or the quality gate reads.
C30_NoInputChanges ==
    [][\A cid \in 1..Len(clients) :
          GuardrailInputs(clients'[cid]) = GuardrailInputs(clients[cid])]_vars

\* C30, amended: no request changes, in an existing client row, the
\* readiness score, the trust level, a revenue column, a readiness flag or
\* any other column validate_deal reads except ai_use_cases; a step that
\* answers a client_edit request changes nothing but assigned_to_id,
\* approver_id and ai_feature_request; and no request moves an opportunity
\* from proposal to contract while its client's readiness score (null as
\* 0) is below 50.
C30_FrozenInputs ==
    /\ [][\A cid \in 1..Len(clients) :
             /\ Len(clients') >= Len(clients)
             /\ FrozenInputs(clients'[cid]) = FrozenInputs(clients[cid])]_vars
    /\ [][resp'.op = "client_edit" =>
             /\ Len(clients') = Len(clients)
             /\ \A cid \in 1..Len(clients) :
                   WithoutAssignment(clients'[cid]) = WithoutAssignment(clients[cid])]_vars
    /\ [][\A id \in 1..Len(opps) :
             (opps[id].stage = "proposal" /\ ScoreOf(id) < 50)
                => opps'[id].stage # "contract"]_vars

\* a client added with readiness 49 was assigned by client_edit and
\* analysed, its opportunity is in proposal, and the move to contract has
\* just been refused by the quality gate
C30_Witness ==
    /\ Len(clients) = 2
    /\ clients[2].ai_readiness_score = Some(49)
    /\ clients[2].assigned_to_id = Some(3)
    /\ clients[2].analysis_updated_at # None
    /\ \E id \in 1..Len(opps) : opps[id].client_id = 2 /\ opps[id].stage = "proposal"
    /\ resp.op = "move"
    /\ resp.status = 400
    /\ resp.error = "Quality Gate"
    /\ resp.score = 49

====
